---- MODULE Spec2Model ----
(***************************************************************************)
(* Model of the property normalization and override engine of PDM:         *)
(* core/database_manager.py, core/property_manager.py,                     *)
(* core/html_parser.py, core/attribute_mapper.py and                       *)
(* workers/import_worker.py.                                               *)
(*                                                                         *)
(* SQL tables are sequences of rows in rowid order.  A Python dict is a    *)
(* sequence of <<key, value>> pairs with distinct keys, in insertion       *)
(* order.  Python None / SQL NULL is the token None, a pandas missing cell *)
(* is the token NaN.                                                       *)
(***************************************************************************)
EXTENDS Integers, Sequences, FiniteSets, TLC

VARIABLES
    Products,                  \* table Products
    Properties,                \* table Properties
    PropertyDefinitions,       \* table PropertyDefinitions
    PropertyMappings,          \* table PropertyMappings
    PropertyOverrides,         \* table PropertyOverrides
    CategoryPropertyOverrides, \* table CategoryPropertyOverrides
    conn,                      \* state of the connection self.conn refers to
    call,                      \* the last DatabaseManager / PropertyManager call and its outcome
    written,                   \* per table and natural key, the arguments of the most recent store_* call
    writes,                    \* number of store_* calls made so far
    csv,                       \* the source file: [readable, columns, rows]
    detect,                    \* ImportWorker.detect_new_properties
    pc,                        \* position of the import job in ImportWorker.run
    article_id_column,         \* local article_id_column of run
    index,                     \* number of rows the row loop has taken
    events,                    \* the signals the worker has emitted, in order
    attribute_mapper,          \* the worker's AttributeMapper cache (mappings)
    runs,                      \* number of import jobs that have ended
    before,                    \* the tables as they were when the job started
    first,                     \* the tables as the first import job left them
    faults,                    \* number of storage errors injected so far
    managers,                  \* the DatabaseManager objects of concurrent jobs: self.conn, self.cursor
    threads                    \* the store_property calls in progress, one per thread

dbVars == <<Products, Properties, PropertyDefinitions, PropertyMappings,
            PropertyOverrides, CategoryPropertyOverrides, conn, call, written, writes>>

jobVars == <<csv, detect, managers, threads, pc, article_id_column, index, events, attribute_mapper,
            runs, before, first, faults>>

vars == <<dbVars, jobVars>>

None == "None"
NaN == "NaN"

-----------------------------------------------------------------------------
(* Bounds and input domains *)

MaxWrites == 3

Articles == {"A1", "A2"}
Languages == {"de", "en"}
PropNames == {"color"}
PropValues == {"Rot", "Gelb"}
PropUnits == {None, "mm"}
Categories == {"X", "Y"}
ProductCategories == {None, "", "X"}
ArticleOverrideValues == {"Green", "Lime"}
CategoryOverrideValues == {"Blue"}

-----------------------------------------------------------------------------
(* Python helpers *)

\* bool(x) of a str-or-None value
Truthy(x) == x # None /\ x # ""

DictHas(d, k) == \E i \in DOMAIN d : d[i][1] = k

DictGet(d, k) == d[CHOOSE i \in DOMAIN d : d[i][1] = k][2]

DictKeys(d) == {d[i][1] : i \in DOMAIN d}

\* d[k] = v
DictSet(d, k, v) ==
    IF DictHas(d, k)
    THEN [i \in DOMAIN d |-> IF d[i][1] = k THEN <<k, v>> ELSE d[i]]
    ELSE Append(d, <<k, v>>)

-----------------------------------------------------------------------------
(* DatabaseManager.connect / close.  A manager state dm records the handle *)
(* self.conn refers to, the handle self.cursor belongs to, and the set of  *)
(* handles that are open.                                                  *)

Manager(c) == [conn |-> 0, cursor |-> 0, open |-> IF c = "open" THEN {0} ELSE {}, next |-> 1]

connect(dm) == [conn |-> dm.next, cursor |-> dm.next, open |-> dm.open \cup {dm.next}, next |-> dm.next + 1]

close(dm) == [dm EXCEPT !.open = dm.open \ {dm.conn}]

\* self.cursor.execute succeeds only on a cursor of an open connection
CanExecute(dm) == dm.cursor \in dm.open

ConnState(dm) == IF dm.conn \in dm.open THEN "open" ELSE "closed"

-----------------------------------------------------------------------------
(* Loops over fetched rows *)

RECURSIVE FoldLeft(_, _, _)
FoldLeft(Op(_, _), acc, s) ==
    IF s = <<>> THEN acc ELSE FoldLeft(Op, Op(acc, Head(s)), Tail(s))

-----------------------------------------------------------------------------
(* DatabaseManager: the write operations, as functions of the table *)

\* the SET clause store_product builds: one "col = ?" per non-None argument
UpdateColumns(name, price, stock, category) ==
    (IF name # None THEN <<"name">> ELSE <<>>) \o
    (IF price # None THEN <<"price">> ELSE <<>>) \o
    (IF stock # None THEN <<"stock">> ELSE <<>>) \o
    (IF category # None THEN <<"category">> ELSE <<>>)

\* sqlite3 binds a float nan parameter as NULL
sql_value(x) == IF x = NaN THEN None ELSE x

\* 'UPDATE Products SET ' + clauses, rstrip(', '), + ' WHERE article_id = ?' is
\* valid SQL only when at least one clause was added
UpdateQueryValid(cols) == Len(cols) > 0

store_product(P, article_id, name, price, stock, category) ==
    LET exists == SelectSeq(P, LAMBDA r : r.article_id = article_id)
        cols == UpdateColumns(name, price, stock, category)
    IN  IF Len(exists) > 0
        THEN IF UpdateQueryValid(cols)
             THEN [raised |-> FALSE,
                   table |-> [i \in DOMAIN P |->
                       IF P[i].article_id = article_id
                       THEN [P[i] EXCEPT
                               !.name = IF name # None THEN sql_value(name) ELSE @,
                               !.price = IF price # None THEN sql_value(price) ELSE @,
                               !.stock = IF stock # None THEN sql_value(stock) ELSE @,
                               !.category = IF category # None THEN sql_value(category) ELSE @]
                       ELSE P[i]]]
             ELSE [raised |-> TRUE, table |-> P]
        ELSE [raised |-> FALSE,
              table |-> Append(P, [article_id |-> article_id, name |-> sql_value(name),
                                   price |-> sql_value(price), stock |-> sql_value(stock),
                                   category |-> sql_value(category)])]

\* mutant: insert without the existence check
store_property_AlwaysInsert(T, article_id, property_name, property_value, property_unit, language) ==
    Append(T, [id |-> Len(T) + 1, article_id |-> article_id,
               property_name |-> property_name, property_value |-> property_value,
               property_unit |-> property_unit, language |-> language])

store_property(T, article_id, property_name, property_value, property_unit, language) ==
    LET property_id == SelectSeq(T, LAMBDA r : /\ r.article_id = article_id
                                               /\ r.property_name = property_name
                                               /\ r.language = language)
    IN  IF Len(property_id) > 0
        THEN [i \in DOMAIN T |->
                IF T[i].id = property_id[1].id
                THEN [T[i] EXCEPT !.property_value = property_value,
                                  !.property_unit = property_unit]
                ELSE T[i]]
        ELSE Append(T, [id |-> Len(T) + 1, article_id |-> article_id,
                        property_name |-> property_name, property_value |-> property_value,
                        property_unit |-> property_unit, language |-> language])

store_property_override(T, article_id, property_name, override_value, language) ==
    LET override_id == SelectSeq(T, LAMBDA r : /\ r.article_id = article_id
                                               /\ r.property_name = property_name
                                               /\ r.language = language)
    IN  IF Len(override_id) > 0
        THEN [i \in DOMAIN T |->
                IF T[i].override_id = override_id[1].override_id
                THEN [T[i] EXCEPT !.override_value = override_value]
                ELSE T[i]]
        ELSE Append(T, [override_id |-> Len(T) + 1, article_id |-> article_id,
                        property_name |-> property_name, override_value |-> override_value,
                        language |-> language])

store_category_property_override(T, category, property_name, override_value, language) ==
    LET override_id == SelectSeq(T, LAMBDA r : /\ r.category = category
                                               /\ r.property_name = property_name
                                               /\ r.language = language)
    IN  IF Len(override_id) > 0
        THEN [i \in DOMAIN T |->
                IF T[i].override_id = override_id[1].override_id
                THEN [T[i] EXCEPT !.override_value = override_value]
                ELSE T[i]]
        ELSE Append(T, [override_id |-> Len(T) + 1, category |-> category,
                        property_name |-> property_name, override_value |-> override_value,
                        language |-> language])

-----------------------------------------------------------------------------
(* DatabaseManager: the read operations *)

\* SELECT property_name, property_value, property_unit, language FROM Properties WHERE article_id = ?
get_product_properties(article_id) ==
    SelectSeq(Properties, LAMBDA r : r.article_id = article_id)

\* SELECT category FROM Products WHERE article_id = ? ; fetchone()
category_result(article_id) ==
    SelectSeq(Products, LAMBDA r : r.article_id = article_id)

\* mutant: the category overrides of every category, not of the product's
get_property_overrides_AnyCategory(article_id) ==
    [article_overrides |-> SelectSeq(PropertyOverrides, LAMBDA r : r.article_id = article_id),
     category_overrides |-> CategoryPropertyOverrides]

get_property_overrides(article_id) ==
    LET article_overrides == SelectSeq(PropertyOverrides, LAMBDA r : r.article_id = article_id)
        res == category_result(article_id)
        category_overrides ==
            IF Len(res) > 0 /\ Truthy(res[1].category)
            THEN SelectSeq(CategoryPropertyOverrides, LAMBDA r : r.category = res[1].category)
            ELSE <<>>
    IN  [article_overrides |-> article_overrides, category_overrides |-> category_overrides]

-----------------------------------------------------------------------------
(* Override resolution: PropertyManager.apply_overrides,                   *)
(* PropertyManager.get_properties_for_product and export_products_csv      *)

\* f"{prop_value} {prop_unit}" if prop_unit else prop_value
FormatValue(prop_value, prop_unit) ==
    IF Truthy(prop_unit) THEN prop_value \o " " \o prop_unit ELSE prop_value

\* "First add regular properties": the dict of one language
RegularProperties(properties, lang) ==
    FoldLeft(LAMBDA d, r : IF r.language = lang
                           THEN DictSet(d, r.property_name,
                                        FormatValue(r.property_value, r.property_unit))
                           ELSE d,
             <<>>, properties)

\* a category override is applied only to a key the dict already holds
OverrideIfPresent(d, key, override_value) ==
    IF DictHas(d, key) THEN DictSet(d, key, override_value) ELSE d

\* mutant: an article override that only replaces a key the dict already holds
OverrideAlways_OnlyPresent(d, key, override_value) ==
    IF DictHas(d, key) THEN DictSet(d, key, override_value) ELSE d

\* an override that is applied whether or not the dict holds the key
OverrideAlways(d, key, override_value) == DictSet(d, key, override_value)

\* mutant: the two tiers applied in the opposite order
apply_overrides_ArticleFirst(article_id, properties) ==
    LET result == SelectSeq(Products, LAMBDA r : r.article_id = article_id)
        category == IF Len(result) > 0 /\ Truthy(result[1].category)
                    THEN result[1].category ELSE None
        category_overrides ==
            IF Truthy(category)
            THEN SelectSeq(CategoryPropertyOverrides, LAMBDA r : r.category = category)
            ELSE <<>>
        article_overrides == SelectSeq(PropertyOverrides, LAMBDA r : r.article_id = article_id)
        after_article ==
            FoldLeft(LAMBDA d, r : DictSet(d, <<r.property_name, r.language>>, r.override_value),
                     properties, article_overrides)
    IN  FoldLeft(LAMBDA d, r : IF DictHas(d, <<r.property_name, r.language>>)
                               THEN DictSet(d, <<r.property_name, r.language>>, r.override_value)
                               ELSE d,
                 after_article, category_overrides)

apply_overrides(article_id, properties) ==
    LET result == category_result(article_id)
        category == IF Len(result) > 0 /\ Truthy(result[1].category)
                    THEN result[1].category ELSE None
        category_overrides ==
            IF Truthy(category)
            THEN SelectSeq(CategoryPropertyOverrides, LAMBDA r : r.category = category)
            ELSE <<>>
        after_category ==
            FoldLeft(LAMBDA d, r : OverrideIfPresent(d, <<r.property_name, r.language>>,
                                                     r.override_value),
                     properties, category_overrides)
        article_overrides == SelectSeq(PropertyOverrides, LAMBDA r : r.article_id = article_id)
    IN  FoldLeft(LAMBDA d, r : OverrideAlways(d, <<r.property_name, r.language>>,
                                              r.override_value),
                 after_category, article_overrides)

\* get_properties_for_product: the dict of one language
properties_for_product(article_id, lang) ==
    LET properties == get_product_properties(article_id)
        ov == get_property_overrides(article_id)
        regular == RegularProperties(properties, lang)
        after_category ==
            FoldLeft(LAMBDA d, r : IF r.language = lang
                                   THEN OverrideAlways(d, r.property_name, r.override_value)
                                   ELSE d,
                     regular, ov.category_overrides)
    IN  FoldLeft(LAMBDA d, r : IF r.language = lang
                               THEN OverrideAlways(d, r.property_name, r.override_value)
                               ELSE d,
                 after_category, ov.article_overrides)

get_properties_for_product(article_id) ==
    [de |-> properties_for_product(article_id, "de"),
     en |-> properties_for_product(article_id, "en")]

\* export_products_csv, lines 346-376: the dict of one language of one product
export_properties(article_id, lang) ==
    LET properties == get_product_properties(article_id)
        ov == get_property_overrides(article_id)
        regular == RegularProperties(properties, lang)
        after_category ==
            FoldLeft(LAMBDA d, r : IF r.language = lang
                                   THEN OverrideIfPresent(d, r.property_name, r.override_value)
                                   ELSE d,
                     regular, ov.category_overrides)
    IN  FoldLeft(LAMBDA d, r : IF r.language = lang
                               THEN OverrideAlways(d, r.property_name, r.override_value)
                               ELSE d,
                 after_category, ov.article_overrides)

\* "<table>" + one <tr><td>name</td><td>value</td></tr> per entry + "</table>"
html_table(props) ==
    FoldLeft(LAMBDA h, e : h \o "<tr><td>" \o e[1] \o "</td><td>" \o e[2] \o "</td></tr>",
             "<table>", props) \o "</table>"

product_row(product, include_html) ==
    LET de_properties == export_properties(product.article_id, "de")
        en_properties == export_properties(product.article_id, "en")
        fixed == << <<"XTSOL", "XTSOL">>,
                    <<"article_id", product.article_id>>,
                    <<"name", product.name>>,
                    <<"price", product.price>>,
                    <<"stock", product.stock>>,
                    <<"category", product.category>>,
                    <<"p_desc.de", IF include_html THEN html_table(de_properties) ELSE "">>,
                    <<"p_desc.en", IF include_html THEN html_table(en_properties) ELSE "">> >>
        with_de == FoldLeft(LAMBDA row, e : DictSet(row, "prop_" \o e[1], e[2]),
                            fixed, de_properties)
    IN  FoldLeft(LAMBDA row, e : DictSet(row, "prop_" \o e[1] \o ".en", e[2]),
                 with_de, en_properties)

\* the loop over the fetched products: each iteration executes on self.cursor,
\* then calls get_property_overrides, which connects and closes
RECURSIVE export_loop(_, _, _, _)
export_loop(products, include_html, dm, export_data) ==
    IF products = <<>>
    THEN [raised |-> FALSE, dm |-> close(dm), export_data |-> export_data]
    ELSE IF ~CanExecute(dm)
         THEN [raised |-> TRUE, dm |-> dm, export_data |-> <<>>]
         ELSE export_loop(Tail(products), include_html, close(connect(dm)),
                          Append(export_data, product_row(Head(products), include_html)))

export_products_csv(c, include_html) ==
    export_loop(Products, include_html, connect(Manager(c)), <<>>)

-----------------------------------------------------------------------------
(* Python str helpers.  A str is a TLA+ string; Ch(s, i) is s[i-1].        *)

Ch(s, i) == SubSeq(s, i, i)

Whitespace == {" ", "\t", "\n", "\r"}

Digits == {"0", "1", "2", "3", "4", "5", "6", "7", "8", "9"}

UpperChars == "ABCDEFGHIJKLMNOPQRSTUVWXYZÄÖÜ"

LowerChars == "abcdefghijklmnopqrstuvwxyzäöü"

\* the characters \w matches
WordChars ==
    Digits \cup {"_", "ß"} \cup {Ch(UpperChars, i) : i \in 1..Len(UpperChars)}
           \cup {Ch(LowerChars, i) : i \in 1..Len(LowerChars)}

\* the end (exclusive) of the longest run of characters of S that starts at i
RECURSIVE SpanWhile(_, _, _)
SpanWhile(s, i, S) ==
    IF i <= Len(s) /\ Ch(s, i) \in S THEN SpanWhile(s, i + 1, S) ELSE i

\* the end (exclusive) of the longest run of characters outside S that starts at i
RECURSIVE SpanUntil(_, _, _)
SpanUntil(s, i, S) ==
    IF i <= Len(s) /\ Ch(s, i) \notin S THEN SpanUntil(s, i + 1, S) ELSE i

\* s[i-1:].startswith(lit)
StartsWithAt(s, i, lit) ==
    i + Len(lit) - 1 <= Len(s) /\ SubSeq(s, i, i + Len(lit) - 1) = lit

\* str.strip()
RECURSIVE lstrip(_)
lstrip(s) == IF Len(s) > 0 /\ Ch(s, 1) \in Whitespace THEN lstrip(Tail(s)) ELSE s

RECURSIVE rstrip(_, _)
rstrip(s, S) ==
    IF Len(s) > 0 /\ Ch(s, Len(s)) \in S THEN rstrip(SubSeq(s, 1, Len(s) - 1), S) ELSE s

strip(s) == rstrip(lstrip(s), Whitespace)

LowerChar(c) ==
    IF \E i \in 1..Len(UpperChars) : Ch(UpperChars, i) = c
    THEN Ch(LowerChars, CHOOSE i \in 1..Len(UpperChars) : Ch(UpperChars, i) = c)
    ELSE c

\* str.lower()
RECURSIVE lower(_)
lower(s) == IF s = "" THEN "" ELSE LowerChar(Ch(s, 1)) \o lower(Tail(s))

\* str.replace(old, new) for a one-character old
RECURSIVE replace(_, _, _)
replace(s, old, new) ==
    IF s = "" THEN ""
    ELSE (IF Ch(s, 1) = old THEN new ELSE Ch(s, 1)) \o replace(Tail(s), old, new)

-----------------------------------------------------------------------------
(* HTMLParser.parse_html_table.  A parsed document (the soup) is a         *)
(* sequence of top-level nodes: a table [tag |-> "table", rows], a row     *)
(* outside any table [tag |-> "tr", cells] or other markup                 *)
(* [tag |-> "markup", text].  A row is a sequence of cells [tag, text].    *)

\* str(soup)
cell_str(cell) == "<" \o cell.tag \o ">" \o cell.text \o "</" \o cell.tag \o ">"

row_str(cells) ==
    "<tr>" \o FoldLeft(LAMBDA h, c : h \o cell_str(c), "", cells) \o "</tr>"

node_str(node) ==
    IF node.tag = "table"
    THEN "<table>" \o FoldLeft(LAMBDA h, r : h \o row_str(r), "", node.rows) \o "</table>"
    ELSE IF node.tag = "tr" THEN row_str(node.cells)
    ELSE node.text

soup_str(soup) == FoldLeft(LAMBDA h, n : h \o node_str(n), "", soup)

\* soup.find_all('table') ; table.find_all('tr')
find_tables(soup) == SelectSeq(soup, LAMBDA n : n.tag = "table")

\* soup.find_all('tr') when the document holds no table
find_rows(soup) ==
    FoldLeft(LAMBDA rs, n : IF n.tag = "tr" THEN Append(rs, n.cells) ELSE rs, <<>>, soup)

\* HTMLParser._parse_rows
parse_rows(rows) ==
    FoldLeft(LAMBDA d, cells :
                IF Len(cells) >= 2
                THEN LET property_name == rstrip(strip(cells[1].text), {":"})
                         property_value == strip(cells[2].text)
                     IN  IF property_name # "" /\ property_value # ""
                         THEN DictSet(d, property_name, property_value)
                         ELSE d
                ELSE d,
             <<>>, rows)

\* dict.update
dict_update(d, other) == FoldLeft(LAMBDA acc, e : DictSet(acc, e[1], e[2]), d, other)

\* the value group of both patterns, \s*([^<]+), tried at position j: \s* is
\* greedy and gives one whitespace character back when nothing else is left
\* for [^<]+ ; the result is <<start, end>> of the group, end exclusive, or
\* <<0, 0>> when there is no match
value_group(s, j) ==
    LET k == SpanWhile(s, j, Whitespace)
        m == SpanUntil(s, k, {"<"})
    IN  IF m > k THEN <<k, m>>
        ELSE IF k > j THEN <<k - 1, k>>
        ELSE <<0, 0>>

\* re.findall(r'(\w+):\s*([^<]+)', s) from position i on
RECURSIVE findall_colon(_, _)
findall_colon(s, i) ==
    IF i > Len(s) THEN <<>>
    ELSE IF Ch(s, i) \notin WordChars THEN findall_colon(s, SpanUntil(s, i, WordChars))
    ELSE LET j == SpanWhile(s, i, WordChars)
             g == IF j <= Len(s) /\ Ch(s, j) = ":" THEN value_group(s, j + 1) ELSE <<0, 0>>
         IN  IF g[1] > 0
             THEN <<<<SubSeq(s, i, j - 1), SubSeq(s, g[1], g[2] - 1)>>>> \o findall_colon(s, g[2])
             ELSE findall_colon(s, j)

\* re.findall(r'<strong>([^<]+)</strong>\s*([^<]+)', s) from position i on
RECURSIVE findall_strong(_, _)
findall_strong(s, i) ==
    IF i > Len(s) THEN <<>>
    ELSE IF ~StartsWithAt(s, i, "<strong>")
    THEN findall_strong(s, SpanUntil(s, i + 1, {"<"}))
    ELSE LET a == i + Len("<strong>")
             b == SpanUntil(s, a, {"<"})
             g == IF b > a /\ StartsWithAt(s, b, "</strong>")
                  THEN value_group(s, b + Len("</strong>")) ELSE <<0, 0>>
         IN  IF g[1] > 0
             THEN <<<<SubSeq(s, a, b - 1), SubSeq(s, g[1], g[2] - 1)>>>> \o findall_strong(s, g[2])
             ELSE findall_strong(s, SpanUntil(s, i + 1, {"<"}))

\* mutant: a match replaces the value the name already has
add_matches_Overwrite(properties, matches) ==
    FoldLeft(LAMBDA d, match :
                LET property_name == strip(match[1])
                    property_value == strip(match[2])
                IN  IF property_name # "" /\ property_value # ""
                    THEN DictSet(d, property_name, property_value)
                    ELSE d,
             properties, matches)

\* the loop over the matches of one pattern
add_matches(properties, matches) ==
    FoldLeft(LAMBDA d, match :
                LET property_name == strip(match[1])
                    property_value == strip(match[2])
                IN  IF property_name # "" /\ property_value # "" /\ ~DictHas(d, property_name)
                    THEN DictSet(d, property_name, property_value)
                    ELSE d,
             properties, matches)

\* lines 13-29: the table scan
table_properties(soup) ==
    IF find_tables(soup) = <<>>
    THEN parse_rows(find_rows(soup))
    ELSE FoldLeft(LAMBDA d, table : dict_update(d, parse_rows(table.rows)), <<>>,
                  find_tables(soup))

parse_html_table(soup) ==
    add_matches(add_matches(table_properties(soup), findall_colon(soup_str(soup), 1)),
                findall_strong(soup_str(soup), 1))

-----------------------------------------------------------------------------
(* HTMLParser.normalize_property *)

de_to_standard ==
    << <<"Farbe", "color">>,
       <<"Material", "material">>,
       <<"Zugkraft", "tensile_strength">>,
       <<"Max. Bündeldurchmesser", "max_bundle_diameter">>,
       <<"Min. Bündeldurchmesser", "min_bundle_diameter">>,
       <<"Temperaturbeständigkeit", "temperature_resistance">>,
       <<"Min. Installationstemperatur", "min_installation_temperature">>,
       <<"Zulassungen", "certifications">>,
       <<"Verpackungseinheit", "packaging_unit">>,
       <<"Isolationsmaterial", "insulation_material">>,
       <<"Werkstoff des Leiters", "conductor_material">>,
       <<"Länge", "length">>,
       <<"Nenngröße", "nominal_size">>,
       <<"Kabelquerschnitt", "cable_cross_section">> >>

\* mutant: the dictionary is consulted for every language
standard_name_AnyLanguage(property_name, language) ==
    IF DictHas(de_to_standard, property_name)
    THEN DictGet(de_to_standard, property_name)
    ELSE replace(lower(property_name), " ", "_")

\* lines 89-94: the standard name
standard_name(property_name, language) ==
    IF language = "de" /\ DictHas(de_to_standard, property_name)
    THEN DictGet(de_to_standard, property_name)
    ELSE replace(lower(property_name), " ", "_")

\* mutant: one more name is taken as dimensioned
DimensionedNames_WithNominalSize ==
    {"tensile_strength", "max_bundle_diameter", "min_bundle_diameter", "length", "nominal_size"}

\* line 101
DimensionedNames == {"tensile_strength", "max_bundle_diameter", "min_bundle_diameter", "length"}

\* re.search(r'(\d+(?:[,.]\d+)?)\s*(\w+)?', s): [found, number, unit]; the
\* match starts at the first digit of s
search_number(s) ==
    LET i == SpanUntil(s, 1, Digits)
    IN  IF i > Len(s) THEN [found |-> FALSE, number |-> "", unit |-> None]
        ELSE LET j == SpanWhile(s, i, Digits)
                 frac == j + 1 <= Len(s) /\ Ch(s, j) \in {",", "."} /\ Ch(s, j + 1) \in Digits
                 e == IF frac THEN SpanWhile(s, j + 1, Digits) ELSE j
                 k == SpanWhile(s, e, Whitespace)
                 m == SpanWhile(s, k, WordChars)
             IN  [found |-> TRUE, number |-> SubSeq(s, i, e - 1),
                  unit |-> IF m > k THEN SubSeq(s, k, m - 1) ELSE None]

RECURSIVE strip_leading_zeros(_)
strip_leading_zeros(s) ==
    IF Len(s) > 1 /\ Ch(s, 1) = "0" THEN strip_leading_zeros(Tail(s)) ELSE s

\* float(numeric_value), as the text SQLite stores for it in a TEXT column
\* (numbers of at most 15 significant digits)
float_text(numeric_value) ==
    LET dot == SpanUntil(numeric_value, 1, {"."})
        int_part == strip_leading_zeros(SubSeq(numeric_value, 1, dot - 1))
        frac_part == rstrip(SubSeq(numeric_value, dot + 1, Len(numeric_value)), {"0"})
    IN  int_part \o "." \o (IF frac_part = "" THEN "0" ELSE frac_part)

\* the pattern (-?\d+)\s*°C\s*bis\s*(\+?\d+)\s*°C tried at position i:
\* [found, min_temp, max_temp]
match_temperature(s, i) ==
    LET a == IF i <= Len(s) /\ Ch(s, i) = "-" THEN i + 1 ELSE i
        b == SpanWhile(s, a, Digits)
        c == SpanWhile(s, b, Whitespace)
        d == IF StartsWithAt(s, c, "°C") THEN SpanWhile(s, c + Len("°C"), Whitespace) ELSE 0
        e == IF d > 0 /\ StartsWithAt(s, d, "bis") THEN SpanWhile(s, d + Len("bis"), Whitespace) ELSE 0
        f == IF e > 0 /\ e <= Len(s) /\ Ch(s, e) = "+" THEN e + 1 ELSE e
        g == IF e > 0 THEN SpanWhile(s, f, Digits) ELSE 0
        h == IF g > f THEN SpanWhile(s, g, Whitespace) ELSE 0
    IN  IF b > a /\ h > 0 /\ StartsWithAt(s, h, "°C")
        THEN [found |-> TRUE, min_temp |-> SubSeq(s, i, b - 1), max_temp |-> SubSeq(s, e, g - 1)]
        ELSE [found |-> FALSE, min_temp |-> "", max_temp |-> ""]

\* re.search of the temperature pattern: the leftmost position that matches
RECURSIVE search_temperature(_, _)
leftmost_match(s, i, match) ==
    IF i > Len(s) \/ match.found THEN match ELSE search_temperature(s, i + 1)

search_temperature(s, i) == leftmost_match(s, i, match_temperature(s, i))

\* str.replace(',', '.')
decimal_point(s) == replace(s, ",", ".")

\* lines 103-112, match the result of the search
numeric_property(name, property_value, match) ==
    IF match.found
    THEN [name |-> name, value |-> float_text(decimal_point(match.number)),
          unit |-> IF Truthy(match.unit) THEN match.unit ELSE None]
    ELSE [name |-> name, value |-> property_value, unit |-> None]

\* lines 116-120, match the result of the search
temperature_property(name, property_value, match) ==
    IF match.found
    THEN [name |-> name, value |-> match.min_temp \o " to " \o match.max_temp, unit |-> "°C"]
    ELSE [name |-> name, value |-> property_value, unit |-> None]

\* lines 96-122, name the standard name
normalized(name, property_value) ==
    IF name \in DimensionedNames
    THEN numeric_property(name, property_value, search_number(property_value))
    ELSE IF name = "temperature_resistance"
    THEN temperature_property(name, property_value, search_temperature(property_value, 1))
    ELSE [name |-> name, value |-> property_value, unit |-> None]

normalize_property(property_name, property_value, language) ==
    normalized(standard_name(property_name, language), property_value)

\* HTMLParser.detect_new_properties: names are normalized with language ""
detect_new_properties(properties_dict, known_properties) ==
    FoldLeft(LAMBDA new, e :
                LET std_name == normalize_property(e[1], "", "").name
                IN  IF std_name \notin known_properties THEN Append(new, std_name) ELSE new,
             <<>>, properties_dict)

-----------------------------------------------------------------------------
(* AttributeMapper: the cache is a dict keyed by <<original_name, language>> *)

load_mappings(T) ==
    FoldLeft(LAMBDA d, r : DictSet(d, <<r.original_name, r.language>>, r.standard_name),
             <<>>, T)

\* mutant: the language of the key is not looked at
get_standard_name_AnyLanguage(mappings, original_name, language) ==
    IF \E i \in DOMAIN mappings : mappings[i][1][1] = original_name
    THEN mappings[CHOOSE i \in DOMAIN mappings : mappings[i][1][1] = original_name][2]
    ELSE original_name

\* self.mappings.get((original_name, language), original_name)
get_standard_name(mappings, original_name, language) ==
    IF DictHas(mappings, <<original_name, language>>)
    THEN DictGet(mappings, <<original_name, language>>)
    ELSE original_name

-----------------------------------------------------------------------------
(* The calls of the data view and of a caller of PropertyManager, one at a *)
(* time (single writer)                                                    *)

Call(op, args, raised, result) == [op |-> op, args |-> args, raised |-> raised, result |-> result]

\* no import job: no file has been chosen
NoFile == [readable |-> FALSE, columns |-> <<>>, rows |-> <<>>]

\* PropertyMappings: per key the standard name of this mapper's most recent
\* successful add_mapping since it loaded; others: the keys other writers
\* have written since then
NoWrites == [Properties |-> <<>>, PropertyOverrides |-> <<>>, CategoryPropertyOverrides |-> <<>>,
             PropertyMappings |-> <<>>, others |-> {}]

Init ==
    /\ Products = <<>>
    /\ Properties = <<>>
    /\ PropertyDefinitions = <<>>
    /\ PropertyMappings = <<>>
    /\ PropertyOverrides = <<>>
    /\ CategoryPropertyOverrides = <<>>
    /\ conn = "none"
    /\ call = Call("none", <<>>, FALSE, <<>>)
    /\ written = NoWrites
    /\ writes = 0
    /\ csv = NoFile
    /\ detect = TRUE
    /\ pc = "idle"
    /\ article_id_column = None
    /\ index = 0
    /\ events = <<>>
    /\ attribute_mapper = <<>>
    /\ runs = 0
    /\ before = <<>>
    /\ first = <<>>
    /\ faults = 0
    /\ managers = <<>>
    /\ threads = <<>>

StoreProduct(article_id, name, price, stock, category) ==
    LET out == store_product(Products, article_id, name, price, stock, category)
    IN  /\ writes < MaxWrites
        /\ Products' = out.table
        \* a raising execute leaves the function before commit and close
        /\ conn' = IF out.raised THEN ConnState(connect(Manager(conn)))
                   ELSE ConnState(close(connect(Manager(conn))))
        /\ call' = Call("store_product",
                        [article_id |-> article_id, name |-> name, price |-> price,
                         stock |-> stock, category |-> category],
                        out.raised, <<>>)
        /\ writes' = writes + 1
        /\ UNCHANGED <<Properties, PropertyDefinitions, PropertyMappings, PropertyOverrides,
                       CategoryPropertyOverrides, written, jobVars>>

StoreProperty(article_id, property_name, property_value, property_unit, language) ==
    /\ writes < MaxWrites
    /\ Properties' = store_property(Properties, article_id, property_name, property_value,
                                    property_unit, language)
    /\ conn' = ConnState(close(connect(Manager(conn))))
    /\ call' = Call("store_property", <<>>, FALSE, <<>>)
    /\ written' = [written EXCEPT !.Properties =
                      DictSet(@, <<article_id, property_name, language>>,
                              <<property_value, property_unit>>)]
    /\ writes' = writes + 1
    /\ UNCHANGED <<Products, PropertyDefinitions, PropertyMappings, PropertyOverrides,
                   CategoryPropertyOverrides, jobVars>>

StorePropertyOverride(article_id, property_name, override_value, language) ==
    /\ writes < MaxWrites
    /\ PropertyOverrides' = store_property_override(PropertyOverrides, article_id,
                                                    property_name, override_value, language)
    /\ conn' = ConnState(close(connect(Manager(conn))))
    /\ call' = Call("store_property_override", <<>>, FALSE, <<>>)
    /\ written' = [written EXCEPT !.PropertyOverrides =
                      DictSet(@, <<article_id, property_name, language>>, override_value)]
    /\ writes' = writes + 1
    /\ UNCHANGED <<Products, Properties, PropertyDefinitions, PropertyMappings,
                   CategoryPropertyOverrides, jobVars>>

StoreCategoryPropertyOverride(category, property_name, override_value, language) ==
    /\ writes < MaxWrites
    /\ CategoryPropertyOverrides' =
           store_category_property_override(CategoryPropertyOverrides, category,
                                            property_name, override_value, language)
    /\ conn' = ConnState(close(connect(Manager(conn))))
    /\ call' = Call("store_category_property_override", <<>>, FALSE, <<>>)
    /\ written' = [written EXCEPT !.CategoryPropertyOverrides =
                      DictSet(@, <<category, property_name, language>>, override_value)]
    /\ writes' = writes + 1
    /\ UNCHANGED <<Products, Properties, PropertyDefinitions, PropertyMappings,
                   PropertyOverrides, jobVars>>

ApplyOverrides(article_id, properties) ==
    /\ call' = Call("apply_overrides", [article_id |-> article_id, properties |-> properties],
                    FALSE, apply_overrides(article_id, properties))
    /\ conn' = ConnState(close(connect(Manager(conn))))
    /\ UNCHANGED <<Products, Properties, PropertyDefinitions, PropertyMappings,
                   PropertyOverrides, CategoryPropertyOverrides, written, writes, jobVars>>

GetPropertiesForProduct(article_id) ==
    /\ call' = Call("get_properties_for_product", [article_id |-> article_id],
                    FALSE, get_properties_for_product(article_id))
    /\ conn' = ConnState(close(connect(Manager(conn))))
    /\ UNCHANGED <<Products, Properties, PropertyDefinitions, PropertyMappings,
                   PropertyOverrides, CategoryPropertyOverrides, written, writes, jobVars>>

ExportProductsCsv(include_html) ==
    LET out == export_products_csv(conn, include_html)
    IN  /\ call' = Call("export_products_csv", [include_html |-> include_html],
                        out.raised, out.export_data)
        /\ conn' = ConnState(out.dm)
        /\ UNCHANGED <<Products, Properties, PropertyDefinitions, PropertyMappings,
                       PropertyOverrides, CategoryPropertyOverrides, written, writes, jobVars>>

\* the base property sets handed to apply_overrides
BaseSets ==
    { <<>>,
      << <<<<"color", "de">>, "Rot">> >>,
      << <<<<"color", "de">>, "Rot">>, <<<<"color", "en">>, "red">> >> }

Next ==
    \/ \E a \in Articles, c \in ProductCategories : StoreProduct(a, None, None, None, c)
    \/ \E a \in Articles, n \in PropNames, u \in PropUnits, l \in Languages :
           StoreProperty(a, n, "Rot", u, l)
    \/ \E a \in Articles, n \in PropNames, l \in Languages :
           StorePropertyOverride(a, n, "Green", l)
    \/ \E c \in Categories, n \in PropNames, v \in CategoryOverrideValues, l \in Languages :
           StoreCategoryPropertyOverride(c, n, v, l)
    \/ \E a \in Articles, b \in BaseSets : ApplyOverrides(a, b)
    \/ \E a \in Articles : GetPropertiesForProduct(a)
    \/ \E h \in BOOLEAN : ExportProductsCsv(h)

Spec == Init /\ [][Next]_vars

-----------------------------------------------------------------------------
(* The stores alone, with two values per key (C5), and store_product with  *)
(* every combination of None and non-None fields (C7)                      *)

NextStore ==
    \/ \E a \in Articles, n \in PropNames, v \in PropValues, u \in PropUnits, l \in Languages :
           StoreProperty(a, n, v, u, l)
    \/ \E a \in Articles, n \in PropNames, v \in ArticleOverrideValues, l \in Languages :
           StorePropertyOverride(a, n, v, l)
    \/ \E c \in Categories, n \in PropNames, v \in {"Blue", "Navy"}, l \in Languages :
           StoreCategoryPropertyOverride(c, n, v, l)

SpecStore == Init /\ [][NextStore]_vars

NextProduct ==
    \E a \in Articles, name \in {None, "Kabelbinder"}, price \in {None, "9.99"},
       stock \in {None, "5"}, category \in {None, "", "X", "Y"} :
        StoreProduct(a, name, price, stock, category)

SpecProduct == Init /\ [][NextProduct]_vars

-----------------------------------------------------------------------------
(* ImportWorker: the source file.  A file is [readable, columns, rows]: the *)
(* header names in order and one function column -> cell per data row; a    *)
(* missing cell is read as NaN.                                             *)

MaxRows == 2
MaxRuns == 2
MaxFaults == 1

td(text) == [tag |-> "td", text |-> text]
th(text) == [tag |-> "th", text |-> text]

DocFarbe == << [tag |-> "table", rows |-> << <<td("Farbe"), td("Rot")>> >>] >>

DocFarbton == << [tag |-> "table", rows |-> << <<th("Farbton:"), td("Gelb")>>,
                                               <<th("Zugkraft"), td("1200 N")>> >>] >>

DocColor == << [tag |-> "markup", text |-> "<p>Color: Red</p>"] >>

Documents == {DocFarbe, DocFarbton, DocColor}

\* the cell of a description column that holds the document
Farbe == soup_str(DocFarbe)
Farbton == soup_str(DocFarbton)
Color == soup_str(DocColor)

\* BeautifulSoup(html_content, 'html.parser')
BeautifulSoup(html_content) == CHOOSE d \in Documents : soup_str(d) = html_content

\* the source files of the model: a header and the data rows it may hold, the
\* cells of a row in header order
SourceChoices ==
    { [columns |-> <<"XTSOL", "p_model", "p_name", "p_desc.de">>,
       rows |-> { <<"XTSOL", "A1", "Kabelbinder", Farbe>>,
                  <<"XTSOL", "A1", "Kabelbinder", Farbton>>,
                  <<"XTSOL", "A2", NaN, Farbe>>,
                  <<"XTSOL", NaN, "Kabelbinder", Farbe>> }],
      [columns |-> <<"article_id", "p_desc.de", "p_desc.en">>,
       rows |-> { <<"A1", Farbe, Color>>,
                  <<"A2", Farbe, NaN>>,
                  <<NaN, Farbe, Color>> }],
      [columns |-> <<"XTINR", "article_id", "p_desc.en">>,
       rows |-> { <<"7", "A1", Color>>, <<"7", NaN, Color>> }],
      [columns |-> <<"p_model", "p_name">>,
       rows |-> { <<"A1", "Kabelbinder">>, <<"A2", NaN>> }],
      [columns |-> <<"XTSOL", "sku", "p_desc.de">>,
       rows |-> { <<"XTSOL", "A1", Farbe>>, <<"XTSOL", NaN, Farbton>>, <<"XTSOL", "A2", NaN>> }],
      [columns |-> <<"XTSOL", "p_desc.en", "p_category">>,
       rows |-> { <<"XTSOL", Color, "X">>, <<"XTSOL", NaN, "X">> }] }

Columns(header) == {header[i] : i \in DOMAIN header}

\* a data row as pandas hands it out: column -> cell
Row(header, cells) ==
    [col \in Columns(header) |-> cells[CHOOSE i \in DOMAIN header : header[i] = col]]

FileChoices ==
    {NoFile} \cup
    UNION {UNION {{[readable |-> TRUE, columns |-> src.columns, rows |-> rows] :
                      rows \in [1..n -> {Row(src.columns, cells) : cells \in src.rows}]} :
                  n \in 0..MaxRows} :
           src \in SourceChoices}

\* pd.isna / pd.notna
isna(x) == x = NaN

\* row.get(col, default)
row_get(row, col, default) == IF col \in DOMAIN row THEN row[col] ELSE default

\* the parser's results on the description cells of the model, computed once
parsed == [html \in {soup_str(d) : d \in Documents} |-> parse_html_table(BeautifulSoup(html))]

-----------------------------------------------------------------------------
(* ImportWorker: the signals a job emits *)

Event(sig, text, id, row, total, ok) ==
    [sig |-> sig, text |-> text, id |-> id, row |-> row, total |-> total, ok |-> ok]

status_updated(text, id, row) == Event("status_updated", text, id, row, 0, TRUE)

progress_updated(current, total) == Event("progress_updated", "", "", current, total, TRUE)

import_finished(ok, text, total) == Event("import_finished", text, "", 0, total, ok)

-----------------------------------------------------------------------------
(* ImportWorker.run: the column checks *)

\* mutant: the check only asks for a header row
has_description_column_AnyColumn(columns) == Len(columns) > 0

\* line 44, negated
has_description_column(columns) ==
    "p_desc.de" \in Columns(columns) \/ "p_desc.en" \in Columns(columns)

\* mutant: a different priority order
candidate_columns_Reordered == <<"p_model", "XTINR", "article_id">>

\* line 50
candidate_columns == <<"p_model", "article_id", "XTINR">>

\* lines 49-53: the first candidate that is a column, else None
standard_article_id_column(columns) ==
    LET present == SelectSeq(candidate_columns, LAMBDA col : col \in Columns(columns))
    IN  IF present = <<>> THEN None ELSE present[1]

\* lines 58-62: the first column that is not XTSOL, else None
first_non_xtsol_column(columns) ==
    LET usable == SelectSeq(columns, LAMBDA col : col # "XTSOL")
    IN  IF usable = <<>> THEN None ELSE usable[1]

-----------------------------------------------------------------------------
(* ImportWorker._detect_and_register_new_properties *)

SampleLimit == 100

Max(a, b) == IF a >= b THEN a ELSE b
Min(a, b) == IF a <= b THEN a ELSE b

\* lines 154-159
known_properties(D) ==
    {D[i].name_de : i \in {j \in DOMAIN D : Truthy(D[j].name_de)}} \cup
    {D[i].name_en : i \in {j \in DOMAIN D : Truthy(D[j].name_en)}}

\* lines 166-167: list(range(0, total_rows, max(1, total_rows // sample_size))),
\* as 1-based row numbers; total_rows // 0 raises ZeroDivisionError
sample_indices(total_rows) ==
    LET sample_size == Min(SampleLimit, total_rows)
    IN  IF sample_size = 0
        THEN [raised |-> TRUE, indices |-> <<>>]
        ELSE LET step == Max(1, total_rows \div sample_size)
                 count == (total_rows + step - 1) \div step
             IN  [raised |-> FALSE, indices |-> [i \in 1..count |-> (i - 1) * step + 1]]

\* lines 179 / 189: [(prop, lang) for prop in new]
tagged(new, lang) == {<<new[i], lang>> : i \in DOMAIN new}

\* lines 174-181 / 184-191 for one description column of a sampled row
column_new_properties(row, columns, col, lang, known) ==
    IF col \in Columns(columns) /\ ~isna(row[col])
    THEN tagged(detect_new_properties(parsed[row[col]], known), lang)
    ELSE {}

\* lines 174-191 for one sampled row: the (name, language) pairs it adds
row_new_properties(row, columns, known) ==
    column_new_properties(row, columns, "p_desc.de", "de", known) \cup
    column_new_properties(row, columns, "p_desc.en", "en", known)

\* DatabaseManager.add_new_property_if_not_exists
add_new_property_if_not_exists(D, property_name, language) ==
    LET exists == \E i \in DOMAIN D :
                     IF language = "de" THEN D[i].name_de = property_name
                                        ELSE D[i].name_en = property_name
    IN  IF ~exists
        THEN [added |-> TRUE,
              table |-> Append(D, [property_id |-> Len(D) + 1,
                                   name_de |-> IF language = "de" THEN property_name ELSE None,
                                   name_en |-> IF language = "de" THEN None ELSE property_name,
                                   data_type |-> "string", expected_unit |-> None])]
        ELSE [added |-> FALSE, table |-> D]

\* lines 194-200: new_properties taken in the order the set is iterated
register_new_properties(D, order) ==
    FoldLeft(LAMBDA acc, e :
                LET r == add_new_property_if_not_exists(acc.table, e[1], e[2])
                IN  [table |-> r.table,
                     events |-> IF r.added
                                THEN Append(acc.events, status_updated("New property detected", e[1], 0))
                                ELSE acc.events],
             [table |-> D, events |-> <<>>], order)

\* the orders in which a set can be iterated
Orders(S) ==
    {order \in [1..Cardinality(S) -> S] : \A i, j \in DOMAIN order : order[i] = order[j] => i = j}

-----------------------------------------------------------------------------
(* ImportWorker.run: one pass of the row loop, lines 78-136.  fault names  *)
(* the storage call of this row that raises for a reason outside the job   *)
(* (at = "product", "de" or "en"; k = the number of the failing            *)
(* store_property call within that description), or at = "none".           *)

NoFault == [at |-> "none", k |-> 0]

FaultChoices ==
    {NoFault, [at |-> "product", k |-> 0]} \cup {[at |-> l, k |-> k] : l \in Languages, k \in 1..2}

\* lines 104-112 / 122-130: the loop over properties.items(), from item i on
\* line 112 / 130, n the result of normalize_property
store_normalized(T, article_id, language, n) ==
    store_property(T, article_id, n.name, n.value, n.unit, language)

\* a call that raises leaves its connection open: it never reaches close()
RECURSIVE store_properties(_, _, _, _, _, _, _, _)
store_properties(T, c, article_id, properties, language, mapper, i, k) ==
    IF i > Len(properties) THEN [raised |-> FALSE, table |-> T, conn |-> c]
    ELSE IF i = k THEN [raised |-> TRUE, table |-> T, conn |-> "open"]
    ELSE store_properties(
             store_normalized(T, article_id, language,
                 normalize_property(get_standard_name(mapper, properties[i][1], language),
                                    properties[i][2], language)),
             "closed", article_id, properties, language, mapper, i + 1, k)

\* lines 99-114 / 117-132: one description column of the row
process_description(T, c, row, columns, col, language, article_id, mapper, fault) ==
    IF col \in Columns(columns) /\ ~isna(row[col])
    THEN store_properties(T, c, article_id, parsed[row[col]], language,
                          mapper, 1, IF fault.at = language THEN fault.k ELSE 0)
    ELSE [raised |-> FALSE, table |-> T, conn |-> c]

\* mutant: the handler gives up the import
row_failed_Abort(row_number) ==
    [events |-> <<status_updated("Error processing row", "", row_number)>>, continue |-> FALSE]

\* lines 134-136: the handler of the row's try block
row_failed(row_number) ==
    [events |-> <<status_updated("Error processing row", "", row_number)>>, continue |-> TRUE]

\* what one pass of the loop leaves: the tables, the signals it emitted,
\* whether the fault took effect, whether the loop goes on, the connection
row_result(P, T, ev, hit, continue, c) ==
    [Products |-> P, Properties |-> T, events |-> ev, hit |-> hit, continue |-> continue,
     conn |-> c]

\* both descriptions done: de and en are the results of the two passes
row_described(P, de, en, processing, article_id, fault) ==
    row_result(P, en.table,
               processing \o
               (IF de.raised
                THEN <<status_updated("Error processing German description for", article_id, 0)>>
                ELSE <<>>) \o
               (IF en.raised
                THEN <<status_updated("Error processing English description for", article_id, 0)>>
                ELSE <<>>),
               IF fault.at = "de" THEN de.raised ELSE IF fault.at = "en" THEN en.raised ELSE FALSE,
               TRUE, en.conn)

\* lines 117-132, after the German description left de
row_english(P, de, row, columns, processing, article_id, mapper, fault) ==
    row_described(P, de,
                  process_description(de.table, de.conn, row, columns, "p_desc.en", "en",
                                      article_id, mapper, fault),
                  processing, article_id, fault)

\* store_product raised: lines 134-136
row_raised(P, T, processing, handled, fault) ==
    row_result(P, T, processing \o handled.events, fault.at = "product", handled.continue, "open")

\* lines 96-132, stored the result of store_product
row_stored(P, T, stored, row, row_number, columns, processing, article_id, mapper, fault) ==
    IF fault.at = "product" \/ stored.raised
    THEN row_raised(P, T, processing, row_failed(row_number), fault)
    ELSE row_english(stored.table,
                     process_description(T, "closed", row, columns, "p_desc.de", "de",
                                         article_id, mapper, fault),
                     row, columns, processing, article_id, mapper, fault)

\* lines 86-132 for a row that has an article id
row_article(P, T, row, row_number, progress, columns, article_id, mapper, fault) ==
    row_stored(P, T,
               store_product(P, article_id,
                             row_get(row, "p_name", None),
                             row_get(row, "p_price", row_get(row, "p_priceNoTax", None)),
                             row_get(row, "p_stock", None),
                             row_get(row, "p_category", row_get(row, "category", None))),
               row, row_number, columns,
               progress \o <<status_updated("Processing article", article_id, 0)>>,
               article_id, mapper, fault)

\* the loop body with the progress event only reported for rows that have an article id
process_row_ProgressAfterCheck(P, T, c, row, row_number, total_rows, columns, id_column, mapper, fault) ==
    IF id_column \notin DOMAIN row \/ isna(row[id_column])
    THEN row_result(P, T,
                    <<status_updated("Skipping row: Missing article ID", "", row_number)>>,
                    FALSE, TRUE, c)
    ELSE row_article(P, T, row, row_number, <<progress_updated(row_number, total_rows)>>,
                     columns, row[id_column], mapper, fault)

process_row(P, T, c, row, row_number, total_rows, columns, id_column, mapper, fault) ==
    IF id_column \notin DOMAIN row \/ isna(row[id_column])
    THEN row_result(P, T,
                    <<progress_updated(row_number, total_rows),
                      status_updated("Skipping row: Missing article ID", "", row_number)>>,
                    FALSE, TRUE, c)
    ELSE row_article(P, T, row, row_number, <<progress_updated(row_number, total_rows)>>,
                     columns, row[id_column], mapper, fault)

-----------------------------------------------------------------------------
(* ImportWorker: the job, one action per step of run *)

Tables == [Products |-> Products, Properties |-> Properties,
           PropertyDefinitions |-> PropertyDefinitions]

\* the mapping the model's database holds when the job starts
ExistingMappings ==
    << [mapping_id |-> 1, original_name |-> "Farbton", standard_name |-> "Farbe",
        language |-> "de"] >>

InitImport ==
    /\ Products = <<>>
    /\ Properties = <<>>
    /\ PropertyDefinitions = <<>>
    /\ PropertyMappings = ExistingMappings
    /\ PropertyOverrides = <<>>
    /\ CategoryPropertyOverrides = <<>>
    /\ conn = "none"
    /\ call = Call("none", <<>>, FALSE, <<>>)
    /\ written = NoWrites
    /\ writes = 0
    /\ csv \in FileChoices
    /\ detect \in BOOLEAN
    /\ pc = "idle"
    /\ article_id_column = None
    /\ index = 0
    /\ events = <<>>
    /\ attribute_mapper = <<>>
    /\ runs = 0
    /\ before = <<>>
    /\ first = <<>>
    /\ faults = 0
    /\ managers = <<>>
    /\ threads = <<>>

\* the job has ended: import_finished was emitted and run returns
Finished(ev) ==
    /\ events' = ev
    /\ pc' = "done"
    /\ runs' = runs + 1
    /\ first' = IF runs = 0
                THEN [Products |-> Products', Properties |-> Properties',
                      PropertyDefinitions |-> PropertyDefinitions']
                ELSE first

Continue(ev, next) ==
    /\ events' = ev
    /\ pc' = next
    /\ UNCHANGED <<runs, first>>

\* lines 141-145: the handler of run's outer try block
import_failed(ev) ==
    ev \o <<status_updated("Error during import", "", 0),
            status_updated("Error details", "", 0),
            import_finished(FALSE, "Import failed", 0)>>

\* ImportWorker.__init__, then start()
StartImport ==
    /\ pc \in {"idle", "done"}
    /\ runs < MaxRuns
    /\ attribute_mapper' = load_mappings(PropertyMappings)
    /\ conn' = "closed"
    /\ before' = Tables
    /\ index' = 0
    /\ article_id_column' = None
    /\ Continue(<<>>, "init")
    /\ UNCHANGED <<Products, Properties, PropertyDefinitions, PropertyMappings,
                   PropertyOverrides, CategoryPropertyOverrides, call, written, writes,
                   csv, detect, managers, threads, faults>>

\* lines 28-29
InitializeDatabase ==
    /\ pc = "init"
    /\ conn' = "closed"
    /\ Continue(Append(events, status_updated("Initializing database...", "", 0)), "read")
    /\ UNCHANGED <<Products, Properties, PropertyDefinitions, PropertyMappings,
                   PropertyOverrides, CategoryPropertyOverrides, call, written, writes,
                   csv, detect, managers, threads, article_id_column, index, attribute_mapper, before, faults>>

\* lines 31-41
ReadCsv ==
    /\ pc = "read"
    /\ UNCHANGED <<dbVars, csv, detect, managers, threads, article_id_column, index, attribute_mapper, before, faults>>
    /\ LET reading == Append(events, status_updated("Reading CSV file", "", 0))
       IN  IF csv.readable
           THEN Continue(reading \o
                         <<status_updated("Successfully read CSV file with rows", "", Len(csv.rows)),
                           status_updated("Found products to process", "", Len(csv.rows))>>,
                         "columns")
           ELSE Finished(reading \o
                         <<status_updated("Error reading CSV", "", 0),
                           import_finished(FALSE, "Failed to read CSV", 0)>>)

\* lines 43-46
CheckColumns ==
    /\ pc = "columns"
    /\ UNCHANGED <<dbVars, csv, detect, managers, threads, article_id_column, index, attribute_mapper, before, faults>>
    /\ IF has_description_column(csv.columns)
       THEN Continue(events, "idcolumn")
       ELSE Finished(Append(events,
                import_finished(FALSE, "Error: Neither p_desc.de nor p_desc.en columns found in CSV", 0)))

\* lines 48-66
ResolveArticleIdColumn ==
    /\ pc = "idcolumn"
    /\ UNCHANGED <<dbVars, csv, detect, managers, threads, index, attribute_mapper, before, faults>>
    /\ LET standard == standard_article_id_column(csv.columns)
           fallback == first_non_xtsol_column(csv.columns)
           warning == Append(events, status_updated(
                          "Warning: Could not identify standard article ID column", "", 0))
           column == IF Truthy(standard) THEN standard ELSE fallback
           ev == IF Truthy(standard) THEN events
                 ELSE IF fallback # None
                      THEN Append(warning, status_updated("Using as article ID column", fallback, 0))
                      ELSE warning
       IN  /\ article_id_column' = column
           /\ IF Truthy(column)
              THEN Continue(ev, IF detect THEN "detect" ELSE "rows")
              ELSE Finished(Append(ev, import_finished(FALSE,
                       "Error: Could not identify any usable article ID column", 0)))

\* lines 193-202, registered the result of the registration loop
Registered(ev, registered, count) ==
    /\ PropertyDefinitions' = registered.table
    /\ conn' = "closed"
    /\ Continue(ev \o registered.events \o
                <<status_updated("Total new properties detected.", "", count)>>, "rows")

\* lines 169-202, new_properties the set the scan built
Register(ev, new_properties) ==
    \E order \in Orders(new_properties) :
        Registered(ev, register_new_properties(PropertyDefinitions, order),
                   Cardinality(new_properties))

\* lines 151-202, sample the result of lines 166-167
Detect(ev, sample) ==
    IF sample.raised
    THEN /\ Continue(Append(ev, status_updated("Warning: Error detecting new properties", "", 0)),
                     "rows")
         /\ UNCHANGED <<PropertyDefinitions, conn>>
    ELSE Register(ev \o [i \in DOMAIN sample.indices |->
                            progress_updated(i, Len(sample.indices))],
                  UNION {row_new_properties(csv.rows[sample.indices[i]], csv.columns,
                                            known_properties(PropertyDefinitions)) :
                             i \in DOMAIN sample.indices})

\* lines 69-74, with _detect_and_register_new_properties
DetectNewProperties ==
    /\ pc = "detect"
    /\ UNCHANGED <<Products, Properties, PropertyMappings, PropertyOverrides,
                   CategoryPropertyOverrides, call, written, writes,
                   csv, detect, managers, threads, article_id_column, index, attribute_mapper, before, faults>>
    /\ Detect(Append(events, status_updated("Detecting new properties...", "", 0)),
              sample_indices(Len(csv.rows)))

\* the effect of one pass of the row loop, r the result of process_row
RowTaken(r, fault) ==
    /\ fault # NoFault => r.hit
    /\ faults' = IF fault = NoFault THEN faults ELSE faults + 1
    /\ Products' = r.Products
    /\ Properties' = r.Properties
    /\ conn' = r.conn
    /\ index' = index + 1
    /\ IF r.continue
       THEN Continue(events \o r.events, "rows")
       ELSE Finished(import_failed(events \o r.events))

\* lines 77-136: the loop body for the next row
ProcessRow ==
    /\ pc = "rows"
    /\ UNCHANGED <<PropertyDefinitions, PropertyMappings, PropertyOverrides,
                   CategoryPropertyOverrides, call, written, writes,
                   csv, detect, managers, threads, article_id_column, attribute_mapper, before>>
    /\ index < Len(csv.rows)
    /\ \E fault \in IF faults < MaxFaults THEN FaultChoices ELSE {NoFault} :
          RowTaken(process_row(Products, Properties, conn, csv.rows[index + 1], index + 1,
                               Len(csv.rows), csv.columns, article_id_column,
                               attribute_mapper, fault),
                   fault)

\* lines 138-139
FinishImport ==
    /\ pc = "rows"
    /\ UNCHANGED <<dbVars, csv, detect, managers, threads, article_id_column, index, attribute_mapper, before, faults>>
    /\ index = Len(csv.rows)
    /\ Finished(events \o
                <<status_updated("Import completed successfully!", "", 0),
                  import_finished(TRUE, "Successfully imported products", Len(csv.rows))>>)

NextImport ==
    \/ StartImport
    \/ InitializeDatabase
    \/ ReadCsv
    \/ CheckColumns
    \/ ResolveArticleIdColumn
    \/ DetectNewProperties
    \/ ProcessRow
    \/ FinishImport

SpecImport == InitImport /\ [][NextImport]_vars

-----------------------------------------------------------------------------
(* ExportWorker: the job, one action per step of run.  The job uses pc and *)
(* events as the import job does; call holds what export_products_csv      *)
(* returned to the worker.                                                 *)

\* the methods class DatabaseManager defines (database_manager.py 7-320);
\* export_products_csv is defined after the class, at module level
DatabaseManagerMethods ==
    {"__init__", "connect", "close", "initialize_database", "store_product", "store_property",
     "add_new_property_if_not_exists", "get_all_products", "get_products_by_category",
     "get_product_properties", "get_property_definitions", "store_property_override",
     "store_category_property_override", "get_property_overrides"}

\* self.db_manager.<name>: the attribute lookup on the instance
hasattr(methods, name) == name \in methods

export_finished(ok, text, total) == Event("export_finished", text, "", 0, total, ok)

\* mutant: the handler emits the result before its status message
export_failed_ResultFirst(ev) ==
    ev \o <<export_finished(FALSE, "Export failed", 0),
            status_updated("Error during export", "", 0)>>

\* lines 34-36: the handler of run's try block
export_failed(ev) ==
    ev \o <<status_updated("Error during export", "", 0),
            export_finished(FALSE, "Export failed", 0)>>

\* lines 31-32
export_succeeded(ev, count) ==
    ev \o <<status_updated("Export completed successfully! products exported.", "", count),
            export_finished(TRUE, "Successfully exported products", count)>>

\* self.export_data: set to [] in __init__ (line 18) and never assigned again
worker_export_data == <<>>

\* ExportWorker._apply_property_overrides: the statuses it emits; the loop
\* over self.export_data (lines 47-72) has nothing to go through
apply_property_overrides(ev, export_data) ==
    IF export_data = <<>>
    THEN ev \o <<status_updated("Applying property overrides...", "", 0),
                 status_updated("Overrides successfully applied.", "", 0)>>
    ELSE ev

\* ExportWorker.__init__, then start(); line 22
StartExport ==
    /\ pc \in {"idle", "done"}
    /\ runs < MaxRuns
    /\ before' = Tables
    /\ Continue(<<status_updated("Exporting data to", "", 0)>>, "overrides")
    /\ UNCHANGED <<dbVars, csv, detect, managers, threads, article_id_column, index, attribute_mapper, faults>>

\* lines 25-26
ApplyPropertyOverrides ==
    /\ pc = "overrides"
    /\ \E apply_overrides_flag \in BOOLEAN :
          Continue(IF apply_overrides_flag
                   THEN apply_property_overrides(events, worker_export_data)
                   ELSE events,
                   "export")
    /\ UNCHANGED <<dbVars, csv, detect, managers, threads, article_id_column, index, attribute_mapper, before, faults>>

\* the end of run, out the outcome of line 29
Exported(out, include_html) ==
    /\ call' = Call("export_products_csv", [include_html |-> include_html],
                    out.raised, out.export_data)
    /\ conn' = ConnState(out.dm)
    /\ Finished(IF out.raised THEN export_failed(events)
                ELSE export_succeeded(events, Len(out.export_data)))

\* lines 29-36
ExportProducts ==
    /\ pc = "export"
    /\ UNCHANGED <<Products, Properties, PropertyDefinitions, PropertyMappings, PropertyOverrides,
                   CategoryPropertyOverrides, written, writes,
                   csv, detect, managers, threads, article_id_column, index, attribute_mapper, before, faults>>
    /\ \E include_html \in BOOLEAN :
          Exported(IF hasattr(DatabaseManagerMethods, "export_products_csv")
                   THEN export_products_csv(conn, include_html)
                   ELSE [raised |-> TRUE, dm |-> Manager(conn), export_data |-> <<>>],
                   include_html)

\* the database is filled before the job starts; the job is the only one
\* at work while it runs
NextExport ==
    \/ /\ pc = "idle"
       /\ \/ \E a \in Articles, c \in ProductCategories : StoreProduct(a, None, None, None, c)
          \/ \E a \in Articles, n \in PropNames, l \in Languages : StoreProperty(a, n, "Rot", None, l)
          \/ \E a \in Articles, n \in PropNames, l \in Languages :
                 StorePropertyOverride(a, n, "Green", l)
          \/ \E c \in Categories, n \in PropNames, l \in Languages :
                 StoreCategoryPropertyOverride(c, n, "Blue", l)
    \/ StartExport
    \/ ApplyPropertyOverrides
    \/ ExportProducts

SpecExport == Init /\ [][NextExport]_vars

-----------------------------------------------------------------------------
(* Both jobs, one after the other, on the database of the import job.  A   *)
(* started job is a QThread whose run goes on to its end: while run has    *)
(* not returned the thread is scheduled and moves on to its next           *)
(* statement, which is the weak fairness of Advance.  Starting a job is up *)
(* to the user and has no fairness.                                        *)

RunStep ==
    \/ InitializeDatabase
    \/ ReadCsv
    \/ CheckColumns
    \/ ResolveArticleIdColumn
    \/ DetectNewProperties
    \/ ProcessRow
    \/ FinishImport
    \/ ApplyPropertyOverrides
    \/ ExportProducts

\* the import job is the first job; export jobs follow it or go without it
NextJobs ==
    \/ runs = 0 /\ StartImport
    \/ StartExport
    \/ RunStep

\* where run can be
Positions ==
    {"init", "read", "columns", "idcolumn", "detect", "rows", "overrides", "export", "done"}

Running == pc \notin {"idle", "done"}

\* run is at another statement, or at the next row of the loop: what every
\* step of RunStep does to pc and index
Advance ==
    /\ Running
    /\ pc' \in Positions
    /\ index' \in {index, index + 1}
    /\ <<pc', index'>> # <<pc, index>>

SpecJobs == InitImport /\ [][NextJobs]_vars /\ WF_<<pc, index>>(Advance)

-----------------------------------------------------------------------------
(* AttributeMapper.add_mapping and the PropertyManager calls that write,   *)
(* with the storage call that fails: sqlite3.connect (the database cannot  *)
(* be opened), cursor.execute or conn.commit (the database is locked,      *)
(* read-only, full), or none.                                              *)

StorageFaults == {"none", "connect", "execute", "commit"}

\* what a call leaves: whether it raised, what it returned, the table
Outcome(raised, result, table) == [raised |-> raised, result |-> result, table |-> table]

\* INSERT OR REPLACE INTO PropertyMappings: the row of the same
\* (original_name, language) is deleted and the new row gets the next id
insert_or_replace_mapping(T, original_name, std_name, language) ==
    Append(SelectSeq(T, LAMBDA r : ~(r.original_name = original_name /\ r.language = language)),
           [mapping_id |-> FoldLeft(LAMBDA a, r : IF r.mapping_id > a THEN r.mapping_id ELSE a,
                                    0, T) + 1,
            original_name |-> original_name, standard_name |-> std_name,
            language |-> language])

\* mutant: the write is made and the cache is left as it was
add_mapping_NoCache(T, mappings, original_name, std_name, language, fault) ==
    IF fault = "connect"
    THEN [raised |-> TRUE, result |-> None, table |-> T, mappings |-> mappings]
    ELSE IF fault # "none"
    THEN [raised |-> FALSE, result |-> FALSE, table |-> T, mappings |-> mappings]
    ELSE [raised |-> FALSE, result |-> TRUE,
          table |-> insert_or_replace_mapping(T, original_name, std_name, language),
          mappings |-> mappings]

\* AttributeMapper.add_mapping: connect and cursor (lines 45-46) are outside
\* the try block; execute, commit and the cache update (49-54) inside it
add_mapping(T, mappings, original_name, std_name, language, fault) ==
    IF fault = "connect"
    THEN [raised |-> TRUE, result |-> None, table |-> T, mappings |-> mappings]
    ELSE IF fault # "none"
    THEN [raised |-> FALSE, result |-> FALSE, table |-> T, mappings |-> mappings]
    ELSE [raised |-> FALSE, result |-> TRUE,
          table |-> insert_or_replace_mapping(T, original_name, std_name, language),
          mappings |-> DictSet(mappings, <<original_name, language>>, std_name)]

\* PropertyManager.add_property_definition: connect and cursor (lines 37-38)
\* are outside the try block; the SELECT, the UPDATE or INSERT and the
\* commit (42-59) inside it.  name_de = ? is not true of a NULL name.
add_property_definition(D, name_de, name_en, data_type, expected_unit, fault) ==
    LET exists == SelectSeq(D, LAMBDA r : r.name_de = name_de \/ r.name_en = name_en)
    IN  IF fault = "connect" THEN Outcome(TRUE, None, D)
        ELSE IF fault # "none" THEN Outcome(FALSE, FALSE, D)
        ELSE IF Len(exists) > 0
        THEN Outcome(FALSE, TRUE,
                     [i \in DOMAIN D |->
                         IF D[i].property_id = exists[1].property_id
                         THEN [D[i] EXCEPT !.name_de = name_de, !.name_en = name_en,
                                           !.data_type = data_type,
                                           !.expected_unit = expected_unit]
                         ELSE D[i]])
        ELSE Outcome(FALSE, TRUE,
                     Append(D, [property_id |-> Len(D) + 1, name_de |-> name_de,
                                name_en |-> name_en, data_type |-> data_type,
                                expected_unit |-> expected_unit]))

\* PropertyManager.set_property_override: the whole of store_property_override,
\* its connect included, is inside the try block (lines 178-183)
set_property_override(T, article_id, property_name, override_value, language, fault) ==
    IF fault # "none" THEN Outcome(FALSE, FALSE, T)
    ELSE Outcome(FALSE, TRUE,
                 store_property_override(T, article_id, property_name, override_value, language))

\* PropertyManager.set_category_property_override (lines 198-203)
set_category_property_override(T, category, property_name, override_value, language, fault) ==
    IF fault # "none" THEN Outcome(FALSE, FALSE, T)
    ELSE Outcome(FALSE, TRUE,
                 store_category_property_override(T, category, property_name, override_value,
                                                  language))

\* the connection after a call that connects and closes in a finally block,
\* or raises in connect
Closed(fault) == IF fault = "connect" THEN conn ELSE "closed"

\* one more call; faults counts the calls whose storage failed
Counted(fault) ==
    /\ writes < MaxWrites
    /\ fault # "none" => faults < MaxFaults
    /\ writes' = writes + 1
    /\ faults' = IF fault = "none" THEN faults ELSE faults + 1

OriginalNames == {"Farbton", "Ton"}
StandardNames == {"Farbe", "Color"}

\* the AttributeMapper under study has been constructed on a database that
\* holds no mapping or one
InitMapper ==
    /\ Products = <<>>
    /\ Properties = <<>>
    /\ PropertyDefinitions = <<>>
    /\ PropertyMappings \in {<<>>, ExistingMappings}
    /\ PropertyOverrides = <<>>
    /\ CategoryPropertyOverrides = <<>>
    /\ conn = "closed"
    /\ call = Call("__init__", <<>>, FALSE, <<>>)
    /\ written = NoWrites
    /\ writes = 0
    /\ csv = NoFile
    /\ detect = TRUE
    /\ pc = "idle"
    /\ article_id_column = None
    /\ index = 0
    /\ events = <<>>
    /\ attribute_mapper = load_mappings(PropertyMappings)
    /\ runs = 0
    /\ before = <<>>
    /\ first = <<>>
    /\ faults = 0
    /\ managers = <<>>
    /\ threads = <<>>

\* out the outcome of add_mapping
MappingAdded(out, original_name, std_name, language, fault) ==
    /\ PropertyMappings' = out.table
    /\ attribute_mapper' = out.mappings
    /\ call' = Call("add_mapping",
                    [original_name |-> original_name, standard_name |-> std_name,
                     language |-> language, fault |-> fault],
                    out.raised, out.result)
    /\ written' = IF ~out.raised /\ out.result
                  THEN [written EXCEPT !.PropertyMappings =
                           DictSet(@, <<original_name, language>>, std_name)]
                  ELSE written

AddMapping(original_name, std_name, language, fault) ==
    /\ Counted(fault)
    /\ conn' = Closed(fault)
    /\ MappingAdded(add_mapping(PropertyMappings, attribute_mapper, original_name,
                                std_name, language, fault),
                    original_name, std_name, language, fault)
    /\ UNCHANGED <<Products, Properties, PropertyDefinitions, PropertyOverrides,
                   CategoryPropertyOverrides, csv, detect, managers, threads, pc, article_id_column, index,
                   events, runs, before, first>>

\* add_mapping of another AttributeMapper instance, built for the call
OtherAddMapping(original_name, std_name, language) ==
    /\ Counted("none")
    /\ conn' = "closed"
    /\ PropertyMappings' = add_mapping(PropertyMappings, load_mappings(PropertyMappings),
                                       original_name, std_name, language, "none").table
    /\ call' = Call("other.add_mapping",
                    [original_name |-> original_name, standard_name |-> std_name,
                     language |-> language, fault |-> "none"],
                    FALSE, TRUE)
    /\ written' = [written EXCEPT !.others = @ \cup {<<original_name, language>>}]
    /\ UNCHANGED <<Products, Properties, PropertyDefinitions, PropertyOverrides,
                   CategoryPropertyOverrides, csv, detect, managers, threads, pc, article_id_column, index,
                   events, attribute_mapper, runs, before, first>>

\* AttributeMapper.load_mappings, called again on the mapper under study
LoadMappings ==
    /\ Counted("none")
    /\ conn' = "closed"
    /\ attribute_mapper' = load_mappings(PropertyMappings)
    /\ call' = Call("load_mappings", <<>>, FALSE, None)
    /\ written' = [written EXCEPT !.PropertyMappings = <<>>, !.others = {}]
    /\ UNCHANGED <<Products, Properties, PropertyDefinitions, PropertyMappings,
                   PropertyOverrides, CategoryPropertyOverrides, csv, detect, managers, threads, pc,
                   article_id_column, index, events, runs, before, first>>

NextMapper ==
    \/ \E o \in OriginalNames, s \in StandardNames, l \in Languages, fault \in StorageFaults :
           AddMapping(o, s, l, fault)
    \/ \E o \in OriginalNames, s \in StandardNames, l \in Languages : OtherAddMapping(o, s, l)
    \/ LoadMappings

SpecMapper == InitMapper /\ [][NextMapper]_vars

\* out the outcome of a PropertyManager call
Reported(op, out, fault) ==
    /\ call' = Call(op, [fault |-> fault], out.raised, out.result)
    /\ conn' = IF op = "add_property_definition" THEN Closed(fault)
               ELSE IF fault = "none" THEN "closed"
               ELSE IF fault = "connect" THEN conn
               ELSE "open"

AddPropertyDefinition(name_de, name_en, data_type, expected_unit, fault) ==
    /\ Counted(fault)
    /\ PropertyDefinitions' = add_property_definition(PropertyDefinitions, name_de, name_en,
                                                      data_type, expected_unit, fault).table
    /\ Reported("add_property_definition",
                add_property_definition(PropertyDefinitions, name_de, name_en, data_type,
                                        expected_unit, fault),
                fault)
    /\ UNCHANGED <<Products, Properties, PropertyMappings, PropertyOverrides,
                   CategoryPropertyOverrides, written, csv, detect, managers, threads, pc, article_id_column,
                   index, events, attribute_mapper, runs, before, first>>

SetPropertyOverride(article_id, property_name, override_value, language, fault) ==
    /\ Counted(fault)
    /\ PropertyOverrides' = set_property_override(PropertyOverrides, article_id, property_name,
                                                  override_value, language, fault).table
    /\ Reported("set_property_override",
                set_property_override(PropertyOverrides, article_id, property_name,
                                      override_value, language, fault),
                fault)
    /\ UNCHANGED <<Products, Properties, PropertyDefinitions, PropertyMappings,
                   CategoryPropertyOverrides, written, csv, detect, managers, threads, pc, article_id_column,
                   index, events, attribute_mapper, runs, before, first>>

SetCategoryPropertyOverride(category, property_name, override_value, language, fault) ==
    /\ Counted(fault)
    /\ CategoryPropertyOverrides' =
           set_category_property_override(CategoryPropertyOverrides, category, property_name,
                                          override_value, language, fault).table
    /\ Reported("set_category_property_override",
                set_category_property_override(CategoryPropertyOverrides, category,
                                               property_name, override_value, language, fault),
                fault)
    /\ UNCHANGED <<Products, Properties, PropertyDefinitions, PropertyMappings,
                   PropertyOverrides, written, csv, detect, managers, threads, pc, article_id_column,
                   index, events, attribute_mapper, runs, before, first>>

\* the calls that write, each with every storage fault
NextFaults ==
    \/ \E o \in OriginalNames, s \in StandardNames, l \in Languages, fault \in StorageFaults :
           AddMapping(o, s, l, fault)
    \/ \E name_en \in {"Color", "Colour"}, expected_unit \in PropUnits, fault \in StorageFaults :
           AddPropertyDefinition("Farbe", name_en, "string", expected_unit, fault)
    \/ \E a \in Articles, n \in PropNames, l \in Languages, fault \in StorageFaults :
           SetPropertyOverride(a, n, "Green", l, fault)
    \/ \E c \in Categories, n \in PropNames, l \in Languages, fault \in StorageFaults :
           SetCategoryPropertyOverride(c, n, "Blue", l, fault)

SpecFaults == InitMapper /\ [][NextFaults]_vars

-----------------------------------------------------------------------------
(* AttributeMapper.suggest_mappings and _calculate_similarity.  A          *)
(* similarity is the exact fraction <<numerator, denominator>> of the      *)
(* float the code computes; 0.8 is <<4, 5>> and the threshold 0.6 is       *)
(* <<3, 5>>.  A denominator 0 stands for ZeroDivisionError.                *)

\* x > y for fractions with positive denominators
Greater(x, y) == x[1] * y[2] > y[1] * x[2]

\* a in b, for two str
str_in(a, b) == \E i \in 1..(Len(b) - Len(a) + 1) : SubSeq(b, i, i + Len(a) - 1) = a

\* set(s)
char_set(s) == {Ch(s, i) : i \in 1..Len(s)}

\* mutant: the strings are compared as they are
calculate_similarity_CaseSensitive(str1, str2) ==
    IF str_in(str1, str2) \/ str_in(str2, str1)
    THEN <<4, 5>>
    ELSE <<Cardinality(char_set(str1) \cap char_set(str2)),
           Max(Cardinality(char_set(str1)), Cardinality(char_set(str2)))>>

\* lines 130-135, on the lowercased strings
similarity_of_lower(str1_lower, str2_lower) ==
    IF str_in(str1_lower, str2_lower) \/ str_in(str2_lower, str1_lower)
    THEN <<4, 5>>
    ELSE <<Cardinality(char_set(str1_lower) \cap char_set(str2_lower)),
           Max(Cardinality(char_set(str1_lower)), Cardinality(char_set(str2_lower)))>>

\* AttributeMapper._calculate_similarity
calculate_similarity(str1, str2) == similarity_of_lower(lower(str1), lower(str2))

\* line 95: the names of all pairs, name_de before name_en, empty ones left out
all_standard_names(D) ==
    FoldLeft(LAMBDA names, r :
                (IF Truthy(r.name_de) THEN Append(names, r.name_de) ELSE names) \o
                (IF Truthy(r.name_en) THEN <<r.name_en>> ELSE <<>>),
             <<>>, D)

\* lines 102-106: the names above the threshold, with their similarity
above_threshold(prop_name, standard_names) ==
    FoldLeft(LAMBDA found, std_name :
                IF Greater(calculate_similarity(prop_name, std_name), <<3, 5>>)
                THEN Append(found, <<std_name, calculate_similarity(prop_name, std_name)>>)
                ELSE found,
             <<>>, standard_names)

\* list.sort(key = similarity, reverse = True): stable, an element goes
\* behind those that are not smaller
sorted_insert(sorted, e) ==
    SelectSeq(sorted, LAMBDA x : ~Greater(e[2], x[2])) \o <<e>> \o
    SelectSeq(sorted, LAMBDA x : Greater(e[2], x[2]))

sort_by_similarity(prop_suggestions) == FoldLeft(sorted_insert, <<>>, prop_suggestions)

\* mutant: the list is cut without having been sorted
top_suggestions_Unsorted(prop_suggestions) ==
    SubSeq(prop_suggestions, 1, Min(3, Len(prop_suggestions)))

\* lines 109-110: sort, then [:3]
top_suggestions(prop_suggestions) ==
    SubSeq(sort_by_similarity(prop_suggestions), 1, Min(3, Len(prop_suggestions)))

\* line 98: prop_name is the original name of a key of the cache
is_mapped_original(mappings, prop_name) ==
    \E i \in DOMAIN mappings : mappings[i][1][1] = prop_name

\* AttributeMapper.suggest_mappings
suggest_mappings(D, mappings, property_names) ==
    FoldLeft(LAMBDA suggestions, prop_name :
                IF ~is_mapped_original(mappings, prop_name)
                THEN DictSet(suggestions, prop_name,
                             top_suggestions(above_threshold(prop_name, all_standard_names(D))))
                ELSE suggestions,
             <<>>, property_names)

Definition(property_id, name_de, name_en) ==
    [property_id |-> property_id, name_de |-> name_de, name_en |-> name_en,
     data_type |-> "string", expected_unit |-> None]

\* the tables PropertyDefinitions the suggestions are drawn from
DefinitionChoices ==
    { <<>>,
      << Definition(1, "Farbe", "Color") >>,
      << Definition(1, "Farbcode", None), Definition(2, "Farbig", "Faber"),
         Definition(3, "Farbe", "Color") >>,
      << Definition(1, "", "abcxy"), Definition(2, "Farbe", "farbe"),
         Definition(3, "Farben", "Colour"), Definition(4, "Ton", None) >> }

\* the tables PropertyMappings the mapper was constructed on
MappingChoices ==
    { <<>>,
      ExistingMappings,
      << [mapping_id |-> 1, original_name |-> "Farbe", standard_name |-> "Color",
          language |-> "en"],
         [mapping_id |-> 2, original_name |-> "Ton", standard_name |-> "Farbe",
          language |-> "de"] >> }

\* the property names asked about
Candidates == {"", "Farbe", "FARBE", "Farbton", "Ton", "Colour", "abcde", "Refab"}

CandidateLists ==
    {<<>>} \cup {<<a>> : a \in Candidates} \cup
    {<<"Farbe", "Farbton">>, <<"Farbton", "Ton", "Colour", "Farbton">>}

\* the strings compared
Strings == Candidates \cup {"farbe", "Color", "color", "abcxy", "Farben", "ä", "Ä"}

InitSuggest ==
    /\ Products = <<>>
    /\ Properties = <<>>
    /\ PropertyDefinitions \in DefinitionChoices
    /\ PropertyMappings \in MappingChoices
    /\ PropertyOverrides = <<>>
    /\ CategoryPropertyOverrides = <<>>
    /\ conn = "closed"
    /\ call = Call("__init__", <<>>, FALSE, <<>>)
    /\ written = NoWrites
    /\ writes = 0
    /\ csv = NoFile
    /\ detect = TRUE
    /\ pc = "idle"
    /\ article_id_column = None
    /\ index = 0
    /\ events = <<>>
    /\ attribute_mapper = load_mappings(PropertyMappings)
    /\ runs = 0
    /\ before = <<>>
    /\ first = <<>>
    /\ faults = 0
    /\ managers = <<>>
    /\ threads = <<>>

\* one call on a mapper just constructed: neither function changes what the
\* next call reads
SuggestMappings(property_names) ==
    /\ call.op = "__init__"
    /\ call' = Call("suggest_mappings", [property_names |-> property_names], FALSE,
                    suggest_mappings(PropertyDefinitions, attribute_mapper, property_names))
    /\ conn' = "closed"
    /\ UNCHANGED <<Products, Properties, PropertyDefinitions, PropertyMappings, PropertyOverrides,
                   CategoryPropertyOverrides, written, writes, jobVars>>

CalculateSimilarity(str1, str2) ==
    /\ call.op = "__init__"
    /\ call' = Call("_calculate_similarity", [str1 |-> str1, str2 |-> str2],
                    calculate_similarity(str1, str2)[2] = 0,
                    calculate_similarity(str1, str2))
    /\ UNCHANGED <<Products, Properties, PropertyDefinitions, PropertyMappings, PropertyOverrides,
                   CategoryPropertyOverrides, conn, written, writes, jobVars>>

NextSuggest ==
    \/ \E property_names \in CandidateLists : SuggestMappings(property_names)
    \/ \E str1 \in Strings, str2 \in Strings : CalculateSimilarity(str1, str2)

SpecSuggest == InitSuggest /\ [][NextSuggest]_vars

-----------------------------------------------------------------------------
(* HTMLParser.parse_html_table on HTML fragments with repeated names: in   *)
(* one table, in two tables, in rows outside a table, and in text the      *)
(* fallback patterns match.                                                *)

RowChoices ==
    { <<td("Farbe"), td("Rot")>>, <<th("Farbe:"), td("Gelb")>>, <<td("Ton"), td("hell")>> }

Table(rows) == [tag |-> "table", rows |-> rows]

TableChoices ==
    {Table(<<r>>) : r \in RowChoices} \cup {Table(<<r, q>>) : r \in RowChoices, q \in RowChoices}

Markup(text) == [tag |-> "markup", text |-> text]

MarkupChoices ==
    { "<p>Farbe: Blau</p>", "<p>Ton: tief</p><p>Ton: hoch</p>", "<strong>Ton</strong> tief",
      "<p>Ton: hoch</p><strong>Ton</strong> tief",
      "<p>Farbe: Blau</p><p>Ton: tief</p><strong>Ton</strong> hoch" }

\* the element nodes of a fragment: no table, one, or two; or rows outside
\* any table
ElementChoices ==
    {<<>>} \cup {<<t>> : t \in TableChoices} \cup
    {<<t, Table(<<r>>)>> : t \in TableChoices, r \in RowChoices} \cup
    {<<[tag |-> "tr", cells |-> r], [tag |-> "tr", cells |-> q]>> :
        r \in RowChoices, q \in RowChoices}

Fragments ==
    ElementChoices \cup {Append(e, Markup(text)) : e \in ElementChoices, text \in MarkupChoices}

\* parse_html_table(html_content), soup the document BeautifulSoup makes of it
ParseHtmlTable(soup) ==
    /\ call.op = "none"
    /\ call' = Call("parse_html_table", [html_content |-> soup_str(soup), soup |-> soup],
                    FALSE, parse_html_table(soup))
    /\ UNCHANGED <<Products, Properties, PropertyDefinitions, PropertyMappings, PropertyOverrides,
                   CategoryPropertyOverrides, conn, written, writes, jobVars>>

NextParse == \E soup \in Fragments : ParseHtmlTable(soup)

SpecParse == Init /\ [][NextParse]_vars

-----------------------------------------------------------------------------
(* The exporter's table read back by the parser: export_products_csv,      *)
(* lines 384-387, renders a dict of one language; parse_html_table reads   *)
(* the text.                                                               *)

RenderNames == {"Farbe", "Länge", "Max. Bündeldurchmesser", "Hinweis"}

RenderValues == {"Rot", "1200.0 N", "RAL: 9005"}

\* the dicts handed to the renderer: no entry, one, or two with distinct names
RenderChoices ==
    {<<>>} \cup {<< <<n, v>> >> : n \in RenderNames, v \in RenderValues} \cup
    {<< <<n, v>>, <<m, w>> >> : <<n, m>> \in {nm \in RenderNames \X RenderNames : nm[1] # nm[2]},
                               <<v, w>> \in RenderValues \X RenderValues}

\* the document html.parser builds of a rendered table: one table, one row
\* of two td cells per entry
rendered_document(props) ==
    << Table([i \in DOMAIN props |-> <<td(props[i][1]), td(props[i][2])>>]) >>

\* BeautifulSoup(html_content, 'html.parser') for the text of a rendered table
parse_rendered(html_content) ==
    CHOOSE d \in {rendered_document(props) : props \in RenderChoices} :
        soup_str(d) = html_content

\* the table is rendered as the exporter does and handed to the parser
RenderAndParse(props) ==
    /\ call.op = "none"
    /\ call' = Call("round_trip",
                    [properties |-> props, html_content |-> html_table(props)],
                    FALSE, parse_html_table(parse_rendered(html_table(props))))
    /\ UNCHANGED <<Products, Properties, PropertyDefinitions, PropertyMappings, PropertyOverrides,
                   CategoryPropertyOverrides, conn, written, writes, jobVars>>

NextRoundTrip == \E props \in RenderChoices : RenderAndParse(props)

SpecRoundTrip == Init /\ [][NextRoundTrip]_vars

-----------------------------------------------------------------------------
(* HTMLParser.normalize_property on names inside and outside the static    *)
(* dictionary, in every language the callers pass ('de' and 'en' from the  *)
(* import, '' from detect_new_properties), and on values with and without  *)
(* a number.                                                               *)

NameChoices ==
    { "Farbe", "Zugkraft", "Länge", "Max. Bündeldurchmesser", "Temperaturbeständigkeit",
      "Nenngröße", "Werkstoff des Leiters",
      "Farbton", "farbe", "color", "length", "Length", "Tensile Strength",
      "tensile_strength", "Temperature Resistance", "Nominal Size" }

ValueChoices ==
    { "1200 N", "4,8 mm", "2.5mm", "007", "Rot", "", "ca. 50 mm", "-5 mm", "M5",
      "-40 °C bis +85 °C", "ca. -40°C bis 85 °C", "bis 85 °C" }

LanguageChoices == {"de", "en", ""}

NormalizeProperty(property_name, property_value, language) ==
    /\ call.op = "none"
    /\ call' = Call("normalize_property",
                    [property_name |-> property_name, property_value |-> property_value,
                     language |-> language],
                    FALSE, normalize_property(property_name, property_value, language))
    /\ UNCHANGED <<Products, Properties, PropertyDefinitions, PropertyMappings, PropertyOverrides,
                   CategoryPropertyOverrides, conn, written, writes, jobVars>>

NextNormalize ==
    \E property_name \in NameChoices, property_value \in ValueChoices, language \in LanguageChoices :
        NormalizeProperty(property_name, property_value, language)

SpecNormalize == Init /\ [][NextNormalize]_vars

-----------------------------------------------------------------------------
(* The sample of _detect_and_register_new_properties on its own, for the   *)
(* row counts of files larger than the sample.                             *)

MaxTotalRows == 250

\* lines 163-169: the rows the detection loop goes through for a file of total_rows rows
SampleRows(total_rows) ==
    /\ call.op = "none"
    /\ call' = Call("sample_indices", [total_rows |-> total_rows],
                    sample_indices(total_rows).raised, sample_indices(total_rows).indices)
    /\ UNCHANGED <<Products, Properties, PropertyDefinitions, PropertyMappings, PropertyOverrides,
                   CategoryPropertyOverrides, conn, written, writes, jobVars>>

NextSample == \E total_rows \in 0..MaxTotalRows : SampleRows(total_rows)

SpecSample == Init /\ [][NextSample]_vars

-----------------------------------------------------------------------------
(* DatabaseManager.store_property called by two jobs at once, one step per *)
(* statement.  The two callers are threads that share the DatabaseManager  *)
(* of one MainWindow (import worker and data view), or two instances of    *)
(* the application on one database file, each with its own manager.  A     *)
(* sqlite3 connection and its cursors can only be used by the thread that  *)
(* created them; a connection gets the database's write lock at its first  *)
(* INSERT or UPDATE and gives it back when it commits or is dropped.       *)

Jobs == {1, 2}

\* the manager each job calls
ManagerChoices == {[t \in Jobs |-> 1], [t \in Jobs |-> t]}

\* the Properties table the jobs meet
StoredChoices ==
    { <<>>,
      << [id |-> 1, article_id |-> "A1", property_name |-> "color", property_value |-> "Blau",
          property_unit |-> None, language |-> "de"] >> }

Thread(position, manager, args, handle, property_id, pending) ==
    [pc |-> position, manager |-> manager, args |-> args, handle |-> handle,
     property_id |-> property_id, pending |-> pending]

\* lines 155-159: fetchone() gives the tuple (id,) of the first row of the key,
\* or None, here the empty tuple
select_property_id(T, article_id, property_name, language) ==
    LET found == SelectSeq(T, LAMBDA r : /\ r.article_id = article_id
                                         /\ r.property_name = property_name
                                         /\ r.language = language)
    IN  IF Len(found) > 0 THEN <<found[1].id>> ELSE <<>>

\* lines 163-166
update_property(T, property_id, property_value, property_unit) ==
    [i \in DOMAIN T |->
        IF T[i].id = property_id
        THEN [T[i] EXCEPT !.property_value = property_value, !.property_unit = property_unit]
        ELSE T[i]]

\* lines 169-172
insert_property(T, article_id, property_name, property_value, property_unit, language) ==
    Append(T, [id |-> Len(T) + 1, article_id |-> article_id,
               property_name |-> property_name, property_value |-> property_value,
               property_unit |-> property_unit, language |-> language])

\* mutant: the write looks the key up again
write_property_Upsert(T, property_id, args) ==
    store_property(T, args.article_id, args.property_name, args.property_value,
                   args.property_unit, args.language)

\* lines 161-172: the branch on what the check found
write_property(T, property_id, args) ==
    IF property_id # <<>>
    THEN update_property(T, property_id[1], args.property_value, args.property_unit)
    ELSE insert_property(T, args.article_id, args.property_name, args.property_value,
                         args.property_unit, args.language)

\* self.cursor is a cursor this thread created, on a connection still open
OwnCursor(job) ==
    /\ managers[job.manager].cursor = job.handle
    /\ CanExecute(managers[job.manager])

\* self.conn is the connection this thread created
OwnConnection(job) == managers[job.manager].conn = job.handle

\* another connection holds the write lock: it has written and not committed,
\* and its manager still refers to it
WriteLocked(t) ==
    \E u \in Jobs \ {t} :
        threads[u].pc = "commit" /\ OwnConnection(threads[u])

InitThreads ==
    /\ Products = <<>>
    /\ Properties \in StoredChoices
    /\ PropertyDefinitions = <<>>
    /\ PropertyMappings = <<>>
    /\ PropertyOverrides = <<>>
    /\ CategoryPropertyOverrides = <<>>
    /\ conn = "closed"
    /\ call = Call("none", <<>>, FALSE, <<>>)
    /\ written = NoWrites
    /\ writes = 0
    /\ csv = NoFile
    /\ detect = TRUE
    /\ pc = "idle"
    /\ article_id_column = None
    /\ index = 0
    /\ events = <<>>
    /\ attribute_mapper = <<>>
    /\ runs = 0
    /\ before = <<>>
    /\ first = <<>>
    /\ faults = 0
    /\ managers = [m \in Jobs |-> Manager("closed")]
    /\ \E of \in ManagerChoices :
          threads = [t \in Jobs |-> Thread("idle", of[t], <<>>, 0, <<>>, <<>>)]

\* what a step of thread t leaves: its own record and its manager
Stepped(t, job, dm) ==
    /\ threads' = [threads EXCEPT ![t] = job]
    /\ managers' = [managers EXCEPT ![job.manager] = dm]
    /\ conn' = ConnState(managers'[1])
    /\ UNCHANGED <<Products, PropertyDefinitions, PropertyMappings, PropertyOverrides,
                   CategoryPropertyOverrides, call, written, writes, csv, detect, pc,
                   article_id_column, index, events, attribute_mapper, runs, before, first,
                   faults>>

\* the statement raises: the call ends, what it wrote is never committed
Raised(t) ==
    Stepped(t, [threads[t] EXCEPT !.pc = "raised", !.pending = <<>>],
            managers[threads[t].manager])

\* line 152
Connect(t, article_id, property_value) ==
    /\ threads[t].pc = "idle"
    /\ Stepped(t, [threads[t] EXCEPT
                      !.pc = "select",
                      !.args = [article_id |-> article_id, property_name |-> "color",
                                property_value |-> property_value, property_unit |-> None,
                                language |-> "de"],
                      !.handle = managers[threads[t].manager].next],
               connect(managers[threads[t].manager]))
    /\ UNCHANGED Properties

\* lines 155-159
Select(t) ==
    /\ threads[t].pc = "select"
    /\ UNCHANGED Properties
    /\ IF OwnCursor(threads[t])
       THEN Stepped(t, [threads[t] EXCEPT
                           !.pc = "write",
                           !.property_id = select_property_id(Properties, threads[t].args.article_id,
                                                              threads[t].args.property_name,
                                                              threads[t].args.language)],
                    managers[threads[t].manager])
       ELSE Raised(t)

\* lines 161-172; a statement that finds the database locked raises when its
\* wait runs out
Write(t) ==
    /\ threads[t].pc = "write"
    /\ UNCHANGED Properties
    /\ IF OwnCursor(threads[t]) /\ ~WriteLocked(t)
       THEN Stepped(t, [threads[t] EXCEPT
                           !.pc = "commit",
                           !.pending = write_property(Properties, threads[t].property_id,
                                                      threads[t].args)],
                    managers[threads[t].manager])
       ELSE Raised(t)

\* line 174
Commit(t) ==
    /\ threads[t].pc = "commit"
    /\ IF OwnConnection(threads[t])
       THEN /\ Properties' = threads[t].pending
            /\ Stepped(t, [threads[t] EXCEPT !.pc = "close", !.pending = <<>>],
                       managers[threads[t].manager])
       ELSE /\ UNCHANGED Properties
            /\ Raised(t)

\* line 175
Close(t) ==
    /\ threads[t].pc = "close"
    /\ UNCHANGED Properties
    /\ IF OwnConnection(threads[t])
       THEN Stepped(t, [threads[t] EXCEPT !.pc = "done"], close(managers[threads[t].manager]))
       ELSE Raised(t)

NextThreads ==
    \/ \E t \in Jobs, article_id \in Articles, property_value \in PropValues :
           Connect(t, article_id, property_value)
    \/ \E t \in Jobs : Select(t)
    \/ \E t \in Jobs : Write(t)
    \/ \E t \in Jobs : Commit(t)
    \/ \E t \in Jobs : Close(t)

SpecThreads == InitThreads /\ [][NextThreads]_vars

-----------------------------------------------------------------------------
(* What the tables hold, read off the rows *)

Keys == PropNames \X Languages

ArticleOverrideRows(a, n, l) ==
    {i \in DOMAIN PropertyOverrides :
        /\ PropertyOverrides[i].article_id = a
        /\ PropertyOverrides[i].property_name = n
        /\ PropertyOverrides[i].language = l}

\* the product's category when it is neither NULL nor empty
CategoryOf(a) ==
    LET rows == {i \in DOMAIN Products : Products[i].article_id = a}
    IN  IF rows = {} THEN None
        ELSE LET c == Products[CHOOSE i \in rows : TRUE].category
             IN  IF c = None \/ c = "" THEN None ELSE c

CategoryOverrideRows(a, n, l) ==
    {i \in DOMAIN CategoryPropertyOverrides :
        /\ CategoryOf(a) # None
        /\ CategoryPropertyOverrides[i].category = CategoryOf(a)
        /\ CategoryPropertyOverrides[i].property_name = n
        /\ CategoryPropertyOverrides[i].language = l}

ArticleOverrideValue(a, n, l) ==
    PropertyOverrides[CHOOSE i \in ArticleOverrideRows(a, n, l) : TRUE].override_value

CategoryOverrideValue(a, n, l) ==
    CategoryPropertyOverrides[CHOOSE i \in CategoryOverrideRows(a, n, l) : TRUE].override_value

\* the stored properties of an article in one language, value and unit joined
StoredRows(a, n, l) ==
    {i \in DOMAIN Properties :
        /\ Properties[i].article_id = a
        /\ Properties[i].property_name = n
        /\ Properties[i].language = l}

StoredValue(a, n, l) ==
    LET r == Properties[CHOOSE i \in StoredRows(a, n, l) : TRUE]
    IN  IF r.property_unit = None \/ r.property_unit = ""
        THEN r.property_value ELSE r.property_value \o " " \o r.property_unit

\* the column of a property in an export row
ExportColumn(n, l) == IF l = "de" THEN "prop_" \o n ELSE "prop_" \o n \o "." \o l

\* The effective property sets the last call produced, as a set of records
\* [article, name, language, has, value, base, baseValue]: one per article the call
\* resolved and per key
Effective ==
    IF call.op = "apply_overrides"
    THEN {[article |-> call.args.article_id, name |-> k[1], language |-> k[2],
           has |-> DictHas(call.result, k),
           value |-> IF DictHas(call.result, k) THEN DictGet(call.result, k) ELSE None,
           base |-> DictHas(call.args.properties, k),
           baseValue |-> IF DictHas(call.args.properties, k)
                         THEN DictGet(call.args.properties, k) ELSE None] : k \in Keys}
    ELSE IF call.op = "get_properties_for_product"
    THEN {[article |-> call.args.article_id, name |-> k[1], language |-> k[2],
           has |-> DictHas(call.result[k[2]], k[1]),
           value |-> IF DictHas(call.result[k[2]], k[1])
                     THEN DictGet(call.result[k[2]], k[1]) ELSE None,
           base |-> StoredRows(call.args.article_id, k[1], k[2]) # {},
           baseValue |-> IF StoredRows(call.args.article_id, k[1], k[2]) # {}
                         THEN StoredValue(call.args.article_id, k[1], k[2]) ELSE None] : k \in Keys}
    ELSE IF call.op = "export_products_csv"
    THEN UNION {
           LET row == call.result[i]
               a == DictGet(row, "article_id")
           IN  {[article |-> a, name |-> k[1], language |-> k[2],
                 has |-> DictHas(row, ExportColumn(k[1], k[2])),
                 value |-> IF DictHas(row, ExportColumn(k[1], k[2]))
                           THEN DictGet(row, ExportColumn(k[1], k[2])) ELSE None,
                 base |-> StoredRows(a, k[1], k[2]) # {},
                 baseValue |-> IF StoredRows(a, k[1], k[2]) # {}
                               THEN StoredValue(a, k[1], k[2]) ELSE None] : k \in Keys}
           : i \in DOMAIN call.result}
    ELSE {}

-----------------------------------------------------------------------------
(* C1: when an article override and a category override of the article's   *)
(* category are both stored for (property name, language), the effective   *)
(* value every resolution path produces is the article override value.     *)
C1_ArticleOverrideWins ==
    \A e \in Effective :
        (/\ ArticleOverrideRows(e.article, e.name, e.language) # {}
         /\ CategoryOverrideRows(e.article, e.name, e.language) # {})
        => (e.has /\ e.value = ArticleOverrideValue(e.article, e.name, e.language))

C1_Witness ==
    \E e \in Effective :
        /\ call.op = "apply_overrides"
        /\ e.base
        /\ ArticleOverrideRows(e.article, e.name, e.language) # {}
        /\ CategoryOverrideRows(e.article, e.name, e.language) # {}
        /\ e.value = "Green"
        /\ CategoryOverrideValue(e.article, e.name, e.language) = "Blue"

(* C2: in every resolution path a category override never adds a key: a    *)
(* key of the effective set is a key of the base set or has an article     *)
(* override.                                                               *)
C2_CategoryNeverAddsKey ==
    \A e \in Effective :
        e.has => (e.base \/ ArticleOverrideRows(e.article, e.name, e.language) # {})

(* C3: for a key of the base set without article override, the effective   *)
(* value is the category override of the product's non-empty category when *)
(* there is one, and the base value otherwise.                             *)
C3_CategoryThenBase ==
    \A e \in Effective :
        (e.base /\ ArticleOverrideRows(e.article, e.name, e.language) = {})
        => /\ e.has
           /\ e.value = IF CategoryOverrideRows(e.article, e.name, e.language) # {}
                        THEN CategoryOverrideValue(e.article, e.name, e.language)
                        ELSE e.baseValue

C3_Witness ==
    /\ call.op = "apply_overrides"
    /\ \E e \in Effective :
        /\ e.base /\ ArticleOverrideRows(e.article, e.name, e.language) = {}
        /\ CategoryOverrideRows(e.article, e.name, e.language) # {}
        /\ e.value = "Blue"
    /\ \E e \in Effective :
        /\ e.base /\ ArticleOverrideRows(e.article, e.name, e.language) = {}
        /\ CategoryOverrideRows(e.article, e.name, e.language) = {}
        /\ e.value = e.baseValue

(* C4: the key set apply_overrides returns is the base key set united with *)
(* the keys of the article overrides stored for the article, and a key     *)
(* only an article override supplies carries the override value.           *)
C4_ArticleOverridesAddKeys ==
    call.op = "apply_overrides" =>
        /\ DictKeys(call.result) =
              DictKeys(call.args.properties) \cup
              {<<PropertyOverrides[i].property_name, PropertyOverrides[i].language>> :
                  i \in {j \in DOMAIN PropertyOverrides :
                            PropertyOverrides[j].article_id = call.args.article_id}}
        /\ \A e \in Effective :
              ArticleOverrideRows(e.article, e.name, e.language) # {}
              => e.value = ArticleOverrideValue(e.article, e.name, e.language)

C4_Witness ==
    /\ call.op = "apply_overrides"
    /\ \E e \in Effective :
        /\ ~e.base
        /\ ArticleOverrideRows(e.article, e.name, e.language) # {}
        /\ e.has /\ e.value = "Green"

(* C5: with a single writer each table holds exactly one row per natural   *)
(* key written, and the row carries the value (and unit) of the most       *)
(* recent store call for the key.                                          *)
C5_OneRowPerKeyLastWrite ==
    /\ \A k \in Articles \X PropNames \X Languages :
          LET rows == {i \in DOMAIN Properties :
                          <<Properties[i].article_id, Properties[i].property_name,
                            Properties[i].language>> = k}
          IN  /\ Cardinality(rows) <= 1
              /\ (rows # {}) = DictHas(written.Properties, k)
              /\ \A i \in rows :
                    <<Properties[i].property_value, Properties[i].property_unit>> =
                        DictGet(written.Properties, k)
    /\ \A k \in Articles \X PropNames \X Languages :
          LET rows == {i \in DOMAIN PropertyOverrides :
                          <<PropertyOverrides[i].article_id, PropertyOverrides[i].property_name,
                            PropertyOverrides[i].language>> = k}
          IN  /\ Cardinality(rows) <= 1
              /\ (rows # {}) = DictHas(written.PropertyOverrides, k)
              /\ \A i \in rows :
                    PropertyOverrides[i].override_value = DictGet(written.PropertyOverrides, k)
    /\ \A k \in Categories \X PropNames \X Languages :
          LET rows == {i \in DOMAIN CategoryPropertyOverrides :
                          <<CategoryPropertyOverrides[i].category,
                            CategoryPropertyOverrides[i].property_name,
                            CategoryPropertyOverrides[i].language>> = k}
          IN  /\ Cardinality(rows) <= 1
              /\ (rows # {}) = DictHas(written.CategoryPropertyOverrides, k)
              /\ \A i \in rows :
                    CategoryPropertyOverrides[i].override_value =
                        DictGet(written.CategoryPropertyOverrides, k)

\* a key written three times, the row holding the value of the third write
C5_Witness ==
    /\ writes = 3
    /\ Len(Properties) = 1
    /\ Properties[1].property_value = "Gelb"
    /\ Properties[1].property_unit = "mm"
    /\ Len(PropertyOverrides) = 0
    /\ Len(CategoryPropertyOverrides) = 0

-----------------------------------------------------------------------------
(* What an import job has emitted *)

LastEvent == events[Len(events)]

EventIndices(sig) == {i \in DOMAIN events : events[i].sig = sig}

StatusIndices(text) ==
    {i \in DOMAIN events : events[i].sig = "status_updated" /\ events[i].text = text}

ErrorIndices ==
    StatusIndices("Error processing row") \cup
    StatusIndices("Error processing German description for") \cup
    StatusIndices("Error processing English description for")

HeaderNames == {csv.columns[i] : i \in DOMAIN csv.columns}

NoDescriptionColumn == "p_desc.de" \notin HeaderNames /\ "p_desc.en" \notin HeaderNames

\* the job got past the checks of the header and entered the row loop
EnteredRowLoop == csv.readable /\ ~NoDescriptionColumn /\ article_id_column # None

StoredArticles == {Products[i].article_id : i \in DOMAIN Products}

(* C6: importing the same source file twice in a row (one worker, no other  *)
(* writer, no storage error from outside the job) leaves Products,          *)
(* Properties and PropertyDefinitions exactly as the first import left      *)
(* them: no additional row, the same values.                                *)
C6_SecondImportSameState ==
    (pc = "done" /\ runs >= 2 /\ faults = 0) => Tables = first

C6_Witness ==
    /\ pc = "done"
    /\ runs = 2
    /\ faults = 0
    /\ Len(Products) = 2
    /\ Len(Properties) >= 2
    /\ Len(PropertyDefinitions) >= 2
    /\ LastEvent.ok

(* C7: store_product on an existing article completes without error for    *)
(* every combination of None and non-None fields, overwrites exactly the   *)
(* fields passed non-None, leaves the other fields and the other products  *)
(* unchanged, and never deletes a product.                                 *)
C7_PartialFieldMerge ==
    [][(/\ writes' = writes + 1
        /\ call'.op = "store_product"
        /\ \E i \in DOMAIN Products : Products[i].article_id = call'.args.article_id)
       => /\ ~call'.raised
          /\ Len(Products') = Len(Products)
          /\ \A i \in DOMAIN Products :
                IF Products[i].article_id = call'.args.article_id
                THEN /\ Products'[i].article_id = Products[i].article_id
                     /\ Products'[i].name = IF call'.args.name # None
                                            THEN call'.args.name ELSE Products[i].name
                     /\ Products'[i].price = IF call'.args.price # None
                                             THEN call'.args.price ELSE Products[i].price
                     /\ Products'[i].stock = IF call'.args.stock # None
                                             THEN call'.args.stock ELSE Products[i].stock
                     /\ Products'[i].category = IF call'.args.category # None
                                                THEN call'.args.category
                                                ELSE Products[i].category
                ELSE Products'[i] = Products[i]]_vars

(* C8: a failure while processing one row (missing article id, or an        *)
(* exception while storing the product or its properties) is reported as a  *)
(* status message and stops no later row: every row of the file is taken,   *)
(* every row with an article id is stored unless its own store_product      *)
(* failed, and the job ends with a success result.                          *)
C8_RowFailureDoesNotStopImport ==
    (pc = "done" /\ EnteredRowLoop) =>
        /\ LastEvent = import_finished(TRUE, "Successfully imported products", Len(csv.rows))
        /\ \A n \in 1..Len(csv.rows) :
              /\ \E i \in EventIndices("progress_updated") :
                    events[i].row = n /\ events[i].total = Len(csv.rows)
              /\ IF csv.rows[n][article_id_column] = NaN
                 THEN \E i \in StatusIndices("Skipping row: Missing article ID") : events[i].row = n
                 ELSE /\ \E i \in StatusIndices("Processing article") :
                            events[i].id = csv.rows[n][article_id_column]
                      /\ \/ csv.rows[n][article_id_column] \in StoredArticles
                         \/ \E i \in StatusIndices("Error processing row") : events[i].row = n
        /\ Cardinality(StatusIndices("Processing article") \cup
                       StatusIndices("Skipping row: Missing article ID")) = Len(csv.rows)
        /\ runs = 1 => Cardinality(ErrorIndices) >= faults

C8_Witness ==
    /\ pc = "done"
    /\ EnteredRowLoop
    /\ runs = 1
    /\ faults = 1
    /\ Len(csv.rows) = 2
    /\ \E i \in StatusIndices("Error processing row") : events[i].row = 1
    /\ csv.rows[1][article_id_column] \notin StoredArticles
    /\ csv.rows[2][article_id_column] \in StoredArticles
    /\ Len(Properties) >= 1
    /\ LastEvent.ok

(* C9: when the source table has neither a p_desc.de nor a p_desc.en        *)
(* column the job ends with a reported failure before any row is taken:     *)
(* it never reaches the article-id, detection or row steps, writes no       *)
(* Product, Property or PropertyDefinition row, and ends by emitting the    *)
(* failure result.                                                          *)
C9_NoDescriptionColumnFailsFast ==
    (csv.readable /\ NoDescriptionColumn /\ pc # "idle") =>
        /\ pc \notin {"idcolumn", "detect", "rows"}
        /\ Tables = before
        /\ EventIndices("progress_updated") = {}
        /\ pc = "done" =>
              LastEvent = import_finished(FALSE,
                  "Error: Neither p_desc.de nor p_desc.en columns found in CSV", 0)

C9_Witness ==
    /\ pc = "done"
    /\ csv.readable
    /\ NoDescriptionColumn
    /\ Len(csv.rows) = 2
    /\ csv.rows[1]["p_model"] = "A1"
    /\ Products = <<>>
    /\ ~LastEvent.ok

\* the first of p_model, article_id, XTINR among the header names, else None
FirstCandidate ==
    IF "p_model" \in HeaderNames THEN "p_model"
    ELSE IF "article_id" \in HeaderNames THEN "article_id"
    ELSE IF "XTINR" \in HeaderNames THEN "XTINR"
    ELSE None

\* the first header name that is not XTSOL
FirstNonXtsol ==
    csv.columns[CHOOSE i \in DOMAIN csv.columns :
                   /\ csv.columns[i] # "XTSOL"
                   /\ \A j \in 1..(i - 1) : csv.columns[j] = "XTSOL"]

(* C10 as stated: the article-id column is the first of p_model,            *)
(* article_id, XTINR present in the source table; if none of them is        *)
(* present the import aborts with a reported failure and writes no product  *)
(* or property.                                                             *)
C10_AbortsWithoutCandidate ==
    (pc = "done" /\ csv.readable /\ ~NoDescriptionColumn) =>
        IF FirstCandidate # None
        THEN article_id_column = FirstCandidate
        ELSE /\ LastEvent.sig = "import_finished"
             /\ ~LastEvent.ok
             /\ Products = before.Products
             /\ Properties = before.Properties

(* C10 amended: the article-id column is the first of p_model, article_id,  *)
(* XTINR present in the source table; if none of them is present the job    *)
(* emits a warning, takes the first column whose header is not XTSOL as     *)
(* the article-id column and goes on to import the rows, ending with a      *)
(* success result.                                                          *)
C10_FallsBackToFirstNonXtsol ==
    (pc \in {"detect", "rows", "done"} /\ csv.readable /\ ~NoDescriptionColumn) =>
        IF FirstCandidate # None
        THEN /\ article_id_column = FirstCandidate
             /\ StatusIndices("Warning: Could not identify standard article ID column") = {}
        ELSE /\ article_id_column = FirstNonXtsol
             /\ StatusIndices("Warning: Could not identify standard article ID column") # {}
             /\ \E i \in StatusIndices("Using as article ID column") : events[i].id = FirstNonXtsol
             /\ pc = "done" => LastEvent = import_finished(TRUE, "Successfully imported products",
                                                           Len(csv.rows))

C10_Witness ==
    /\ pc = "done"
    /\ csv.readable
    /\ FirstCandidate = None
    /\ article_id_column = "sku"
    /\ "A1" \in StoredArticles
    /\ Len(Properties) >= 1
    /\ LastEvent.ok

(* C11: an export job run against a database holding N products (N >= 0,    *)
(* N >= 2 included) ends with a success result and one output row per      *)
(* product, each row carrying the product's properties with both override  *)
(* tiers resolved.                                                         *)
C11_ExportOneRowPerProduct ==
    (pc = "done" /\ LastEvent.sig = "export_finished") =>
        /\ LastEvent.ok
        /\ LastEvent.total = Len(Products)
        /\ ~call.raised
        /\ Len(call.result) = Len(Products)
        /\ \A i \in DOMAIN Products :
              /\ DictGet(call.result[i], "article_id") = Products[i].article_id
              /\ \A e \in {export_properties(Products[i].article_id, "de")[j] :
                             j \in DOMAIN export_properties(Products[i].article_id, "de")} :
                    /\ DictHas(call.result[i], "prop_" \o e[1])
                    /\ DictGet(call.result[i], "prop_" \o e[1]) = e[2]

-----------------------------------------------------------------------------
(* C12: every import job and every export job terminates, and emits        *)
(* exactly one final result signal (import_finished or export_finished,    *)
(* success or failure) on every path through run, with no status or        *)
(* progress event after it.                                                *)

ResultIndices == EventIndices("import_finished") \cup EventIndices("export_finished")

\* the events of the job so far: no result while run is at work, and one
\* result, the last event, once run has returned
OneFinalResult ==
    /\ Running => ResultIndices = {}
    /\ pc = "done" => ResultIndices = {Len(events)}

C12_OneFinalResult == [](OneFinalResult) /\ (Running ~> pc = "done")

\* an export job that applied its overrides has returned after an import job
C12_Witness ==
    /\ pc = "done"
    /\ runs = 2
    /\ before.Products # <<>>
    /\ LastEvent.sig = "export_finished"
    /\ StatusIndices("Overrides successfully applied.") # {}

-----------------------------------------------------------------------------
(* C13: the count in the final success summary of an import job is the     *)
(* number of rows whose product was stored; rows skipped for a missing     *)
(* article id or because of a row-level error are not counted.             *)

\* the rows of this job whose store_product call returned: those that got
\* as far as line 87 and did not end in the handler of lines 134-136
RowsStored ==
    Cardinality(StatusIndices("Processing article")) -
    Cardinality(StatusIndices("Error processing row"))

C13_SummaryCountsStoredRows ==
    (pc = "done" /\ LastEvent.sig = "import_finished" /\ LastEvent.ok) =>
        LastEvent.total = RowsStored

-----------------------------------------------------------------------------
(* C14: get_standard_name(original_name, language) never errors and never  *)
(* returns null; after any sequence of add_mapping calls on the mapper it  *)
(* returns the standard name of the most recent successful add_mapping for *)
(* exactly that (original_name, language) pair, and original_name          *)
(* unchanged when no mapping exists for the pair: a mapping of the same    *)
(* original name in the other language does not apply.                     *)

\* the keys the table PropertyMappings holds
PersistedKeys ==
    {<<PropertyMappings[i].original_name, PropertyMappings[i].language>> :
        i \in DOMAIN PropertyMappings}

C14_GetStandardName ==
    \A o \in OriginalNames, l \in Languages :
        /\ get_standard_name(attribute_mapper, o, l) # None
        /\ DictHas(written.PropertyMappings, <<o, l>>) =>
               get_standard_name(attribute_mapper, o, l) =
                   DictGet(written.PropertyMappings, <<o, l>>)
        /\ (~DictHas(written.PropertyMappings, <<o, l>>) /\ <<o, l>> \notin PersistedKeys) =>
               get_standard_name(attribute_mapper, o, l) = o

\* Farbton was loaded as Farbe, mapped again to Color by a successful
\* add_mapping, and has no English mapping
C14_Witness ==
    /\ call.op = "add_mapping"
    /\ ~call.raised
    /\ DictHas(written.PropertyMappings, <<"Farbton", "de">>)
    /\ get_standard_name(attribute_mapper, "Farbton", "de") = "Color"
    /\ <<"Farbton", "en">> \notin PersistedKeys
    /\ get_standard_name(attribute_mapper, "Farbton", "en") = "Farbton"
    /\ faults > 0

-----------------------------------------------------------------------------
(* C15: a storage error in add_mapping, add_property_definition,           *)
(* set_property_override or set_category_property_override is reported to  *)
(* the caller as the return value False and never as a raised exception;   *)
(* when add_mapping fails, the mapper's cache is left as it was before the *)
(* call.                                                                   *)

WriteCalls ==
    {"add_mapping", "add_property_definition", "set_property_override",
     "set_category_property_override"}

\* the last call met a storage error
StorageFailed == call.op \in WriteCalls /\ call.args.fault # "none"

ReportedAsFalse == StorageFailed => (~call.raised /\ ~call.result)

CacheKeptOnFailure ==
    (call'.op = "add_mapping" /\ writes' = writes + 1 /\ call'.args.fault # "none") =>
        attribute_mapper' = attribute_mapper

C15_StorageErrorReturnsFalse == [](ReportedAsFalse) /\ [][CacheKeptOnFailure]_vars

-----------------------------------------------------------------------------
(* C16: the mapper's cache equals the persisted (original_name, language)  *)
(* -> standard_name mappings right after construction and after every      *)
(* load_mappings, and stays equal after every add_mapping of this mapper   *)
(* as long as no other writer changes the mappings; a mapping written by   *)
(* another AttributeMapper instance is not reflected by get_standard_name  *)
(* until load_mappings is called again.                                    *)

CacheEntries == {attribute_mapper[i] : i \in DOMAIN attribute_mapper}

Persisted ==
    {<< <<PropertyMappings[i].original_name, PropertyMappings[i].language>>,
        PropertyMappings[i].standard_name >> : i \in DOMAIN PropertyMappings}

\* no other writer since the mapper loaded: the cache is what is persisted,
\* one entry per key
CacheIsPersisted ==
    written.others = {} =>
        /\ CacheEntries = Persisted
        /\ Cardinality(DictKeys(attribute_mapper)) = Len(attribute_mapper)

\* the write of another instance changes no answer of this mapper
OtherWriteNotReflected ==
    (call'.op = "other.add_mapping" /\ writes' = writes + 1) =>
        \A o \in OriginalNames, l \in Languages :
            get_standard_name(attribute_mapper', o, l) =
                get_standard_name(attribute_mapper, o, l)

C16_CacheEqualsPersisted == [](CacheIsPersisted) /\ [][OtherWriteNotReflected]_vars

\* another instance has mapped Farbton to Color after this mapper added
\* a mapping of its own: the mapper still answers Farbe, the table says Color
C16_Witness ==
    /\ written.others = {<<"Farbton", "de">>}
    /\ written.PropertyMappings # <<>>
    /\ get_standard_name(attribute_mapper, "Farbton", "de") = "Farbe"
    /\ << <<"Farbton", "de">>, "Color" >> \in Persisted
    /\ CacheEntries # Persisted

-----------------------------------------------------------------------------
(* C17: suggest_mappings returns no entry for a candidate that is a mapped *)
(* original name (in any language); for every other candidate it returns   *)
(* at most 3 suggestions, each with a score above 0.6, in descending order *)
(* of score, and no canonical name left out scores higher than a returned  *)
(* one.                                                                    *)

MappedOriginals == {attribute_mapper[i][1][1] : i \in DOMAIN attribute_mapper}

CanonicalNames ==
    {n \in UNION {{PropertyDefinitions[i].name_de, PropertyDefinitions[i].name_en} :
                     i \in DOMAIN PropertyDefinitions} : Truthy(n)}

\* l is a list of suggestions for candidate as the claim describes it
GoodSuggestions(candidate, l) ==
    /\ Len(l) <= 3
    /\ \A j \in DOMAIN l :
          /\ l[j][1] \in CanonicalNames
          /\ l[j][2] = calculate_similarity(candidate, l[j][1])
          /\ Greater(l[j][2], <<3, 5>>)
    /\ \A j, k \in DOMAIN l : j < k => ~Greater(l[k][2], l[j][2])
    /\ \A n \in CanonicalNames \ {l[j][1] : j \in DOMAIN l} :
          /\ \A j \in DOMAIN l : ~Greater(calculate_similarity(candidate, n), l[j][2])
          /\ Len(l) < 3 => ~Greater(calculate_similarity(candidate, n), <<3, 5>>)

C17_SuggestMappings ==
    call.op = "suggest_mappings" =>
        /\ DictKeys(call.result) \cap MappedOriginals = {}
        /\ \A k \in DOMAIN call.args.property_names :
              call.args.property_names[k] \notin MappedOriginals =>
                  DictHas(call.result, call.args.property_names[k])
        /\ \A i \in DOMAIN call.result : GoodSuggestions(call.result[i][1], call.result[i][2])

\* Farbton is a mapped original and gets no entry; Farbe gets the three best
\* of four names above the threshold, Farbcode (5/8) is left out
C17_Witness ==
    /\ call.op = "suggest_mappings"
    /\ call.args.property_names = <<"Farbe", "Farbton">>
    /\ "Farbton" \in MappedOriginals
    /\ "Farbcode" \in CanonicalNames
    /\ call.result = << <<"Farbe", << <<"Faber", <<5, 5>> >>, <<"Farbe", <<4, 5>> >>,
                                       <<"Farbig", <<4, 6>> >> >> >> >>

-----------------------------------------------------------------------------
(* C18: the similarity is case-insensitive and symmetric, lies between 0   *)
(* and 1 for every pair of strings (empty strings included, with no        *)
(* division by zero), is 0.8 whenever one lowercased string is a substring *)
(* of the other (identical strings included), and otherwise is the number  *)
(* of distinct shared characters divided by the larger of the two          *)
(* distinct-character counts.                                              *)

\* the fractions x and y are the same number
Same(x, y) == x[1] * y[2] = y[1] * x[2]

\* b is some prefix, then a, then some suffix
Substring(a, b) ==
    \E i \in 0..Len(b) :
        /\ i + Len(a) <= Len(b)
        /\ \A k \in 1..Len(a) : Ch(b, i + k) = Ch(a, k)

Distinct(s) == {Ch(s, i) : i \in 1..Len(s)}

\* the strings in lower case
Lowered == [s \in Strings |-> lower(s)]

\* what the claim says the similarity of two lowercased strings is
Described(a, b) ==
    IF Substring(a, b) \/ Substring(b, a)
    THEN <<4, 5>>
    ELSE <<Cardinality(Distinct(a) \cap Distinct(b)),
           Max(Cardinality(Distinct(a)), Cardinality(Distinct(b)))>>

C18_Similarity ==
    call.op = "_calculate_similarity" =>
        /\ ~call.raised
        /\ call.result[2] > 0
        /\ 0 <= call.result[1]
        /\ call.result[1] <= call.result[2]
        /\ call.result = calculate_similarity(call.args.str2, call.args.str1)
        /\ \A x, y \in Strings :
              (Lowered[x] = Lowered[call.args.str1] /\ Lowered[y] = Lowered[call.args.str2]) =>
                  calculate_similarity(x, y) = call.result
        /\ Same(call.result, Described(Lowered[call.args.str1], Lowered[call.args.str2]))

\* FARBE and Farbton: neither is in the other, they share f, a, r, b of 7
C18_Witness ==
    /\ call.op = "_calculate_similarity"
    /\ call.args = [str1 |-> "FARBE", str2 |-> "Farbton"]
    /\ call.result = <<4, 7>>

-----------------------------------------------------------------------------
(* C19: when a property name occurs more than once in the table rows of an *)
(* HTML fragment, within one table or across tables, the extracted mapping *)
(* holds the value of the first occurrence: later rows and later tables    *)
(* add keys but never replace the value of a key already present.          *)

\* the rows the table scan goes through, in document order
ScannedRows(soup) ==
    IF find_tables(soup) = <<>> THEN find_rows(soup)
    ELSE FoldLeft(LAMBDA rs, table : rs \o table.rows, <<>>, find_tables(soup))

\* the name and value of a row as the scan reads them
RowName(cells) == rstrip(strip(cells[1].text), {":"})
RowValue(cells) == strip(cells[2].text)

\* the rows that yield a property
Occurrences(soup) ==
    SelectSeq(ScannedRows(soup),
              LAMBDA cells : Len(cells) >= 2 /\ RowName(cells) # "" /\ RowValue(cells) # "")

FirstOccurrencesKept(soup, properties) ==
    \A i \in DOMAIN Occurrences(soup) :
        (\A j \in 1..(i - 1) : RowName(Occurrences(soup)[j]) # RowName(Occurrences(soup)[i])) =>
            /\ DictHas(properties, RowName(Occurrences(soup)[i]))
            /\ DictGet(properties, RowName(Occurrences(soup)[i])) =
                   RowValue(Occurrences(soup)[i])

C19_FirstOccurrenceWins ==
    call.op = "parse_html_table" => FirstOccurrencesKept(call.args.soup, call.result)

-----------------------------------------------------------------------------
(* C20: the two textual fallback patterns only add pairs for names not yet *)
(* captured: a name the table scan found keeps its table value, and among  *)
(* the fallback matches (first pattern before second, document order       *)
(* inside a pattern) the first match for a name wins, later matches for    *)
(* that name are discarded.                                                *)

\* the matches of both patterns in the order they are gone through, name
\* and value stripped, those with an empty name or value left out
FallbackMatches(soup) ==
    SelectSeq([i \in DOMAIN (findall_colon(soup_str(soup), 1) \o findall_strong(soup_str(soup), 1)) |->
                  << strip((findall_colon(soup_str(soup), 1) \o
                            findall_strong(soup_str(soup), 1))[i][1]),
                     strip((findall_colon(soup_str(soup), 1) \o
                            findall_strong(soup_str(soup), 1))[i][2]) >>],
              LAMBDA match : match[1] # "" /\ match[2] # "")

FallbackOnlyAdds(scanned, matches, properties) ==
    /\ Len(properties) >= Len(scanned)
    /\ SubSeq(properties, 1, Len(scanned)) = scanned
    /\ DictKeys(properties) = DictKeys(scanned) \cup {matches[i][1] : i \in DOMAIN matches}
    /\ \A i \in DOMAIN matches :
          (/\ matches[i][1] \notin DictKeys(scanned)
           /\ \A j \in 1..(i - 1) : matches[j][1] # matches[i][1]) =>
              DictGet(properties, matches[i][1]) = matches[i][2]

C20_FallbackOnlyAdds ==
    call.op = "parse_html_table" =>
        FallbackOnlyAdds(table_properties(call.args.soup), FallbackMatches(call.args.soup),
                         call.result)

\* the table gives Farbe = Rot; the text gives Farbe: Blau, Ton: tief and,
\* by the second pattern, Ton hoch
C20_Witness ==
    /\ call.op = "parse_html_table"
    /\ call.args.html_content =
           "<table><tr><td>Farbe</td><td>Rot</td></tr></table><p>Farbe: Blau</p><p>Ton: tief</p><strong>Ton</strong> hoch"
    /\ FallbackMatches(call.args.soup) =
           << <<"Farbe", "Blau">>, <<"Ton", "tief">>, <<"Ton", "hoch">> >>
    /\ call.result = << <<"Farbe", "Rot">>, <<"Ton", "tief">> >>

-----------------------------------------------------------------------------
(* C21: round trip.  Rendering a name -> value mapping as an HTML property *)
(* table, one <tr><td>name</td><td>value</td></tr> per entry as the        *)
(* exporter does, and extracting it with parse_html_table yields exactly   *)
(* the original mapping: same keys, values and order, no additional keys,  *)
(* for every mapping of non-empty names and values.                        *)

C21_RoundTrip ==
    call.op = "round_trip" => call.result = call.args.properties

-----------------------------------------------------------------------------
(* C22: name canonicalization.  For language 'de' a label that is a key of *)
(* the static dictionary maps to its dictionary value (Farbe -> color) and *)
(* any other name to its lower-case form with spaces replaced by           *)
(* underscores; for any other language the dictionary is not consulted and *)
(* the name is lower-cased with spaces replaced by underscores; applying   *)
(* the canonicalization to its own result returns that result unchanged.   *)

\* result is name, letter by letter in lower case, "_" for every space
LowerCasedWithUnderscores(name, result) ==
    /\ Len(result) = Len(name)
    /\ \A i \in 1..Len(name) :
          Ch(result, i) = IF Ch(name, i) = " " THEN "_" ELSE LowerChar(Ch(name, i))

C22_NameCanonicalization ==
    call.op = "normalize_property" =>
        /\ IF call.args.language = "de" /\ DictHas(de_to_standard, call.args.property_name)
           THEN call.result.name = DictGet(de_to_standard, call.args.property_name)
           ELSE LowerCasedWithUnderscores(call.args.property_name, call.result.name)
        /\ normalize_property(call.result.name, call.args.property_value,
                              call.args.language).name = call.result.name

\* a dictionary key with spaces, normalized for 'en'
C22_Witness ==
    /\ call.op = "normalize_property"
    /\ call.args.property_name = "Werkstoff des Leiters"
    /\ call.args.language = "en"
    /\ call.result.name = "werkstoff_des_leiters"

-----------------------------------------------------------------------------
(* C23: for the dimensioned standard names (tensile_strength,              *)
(* max_bundle_diameter, min_bundle_diameter, length) the typed value is    *)
(* the number denoted by the leading numeric token of the raw value (comma *)
(* or dot as decimal separator) and the unit is the alphabetic token that  *)
(* follows it ("1200 N" -> 1200.0 with unit N); when the raw value does    *)
(* not start with such a numeric token the original string is returned     *)
(* unchanged with no unit.                                                 *)

DimensionedStandardNames ==
    {"tensile_strength", "max_bundle_diameter", "min_bundle_diameter", "length"}

\* the end (exclusive) of the numeric token s starts with: digits, then
\* optionally a comma or dot and digits; 1 when s does not start with a digit
LeadingNumberEnd(s) ==
    IF SpanWhile(s, 1, Digits) > 1 /\ SpanWhile(s, 1, Digits) + 1 <= Len(s)
       /\ Ch(s, SpanWhile(s, 1, Digits)) \in {",", "."}
       /\ Ch(s, SpanWhile(s, 1, Digits) + 1) \in Digits
    THEN SpanWhile(s, SpanWhile(s, 1, Digits) + 1, Digits)
    ELSE SpanWhile(s, 1, Digits)

Letters == WordChars \ (Digits \cup {"_"})

\* the alphabetic token after position i and optional whitespace, else None
FollowingUnit(s, i) ==
    IF SpanWhile(s, SpanWhile(s, i, Whitespace), Letters) > SpanWhile(s, i, Whitespace)
    THEN SubSeq(s, SpanWhile(s, i, Whitespace),
                SpanWhile(s, SpanWhile(s, i, Whitespace), Letters) - 1)
    ELSE None

C23_LeadingNumberAndUnit ==
    (call.op = "normalize_property" /\ call.result.name \in DimensionedStandardNames) =>
        IF LeadingNumberEnd(call.args.property_value) > 1
        THEN /\ call.result.value =
                    float_text(decimal_point(SubSeq(call.args.property_value, 1,
                                   LeadingNumberEnd(call.args.property_value) - 1)))
             /\ call.result.unit =
                    FollowingUnit(call.args.property_value,
                                  LeadingNumberEnd(call.args.property_value))
        ELSE /\ call.result.value = call.args.property_value
             /\ call.result.unit = None

-----------------------------------------------------------------------------
(* C24: for every standard name outside the dimensioned set and other than *)
(* temperature_resistance, and for temperature_resistance values that do   *)
(* not match the 'MIN °C bis MAX °C' range pattern, normalize_property     *)
(* returns the raw value string unchanged and unit none.                   *)

\* the range pattern matches somewhere in s
MatchesRange(s) == \E i \in 1..Len(s) : match_temperature(s, i).found

C24_PassThrough ==
    (/\ call.op = "normalize_property"
     /\ call.result.name \notin DimensionedStandardNames
     /\ call.result.name = "temperature_resistance" => ~MatchesRange(call.args.property_value)) =>
        /\ call.result.value = call.args.property_value
        /\ call.result.unit = None

\* a value with number and unit under a name outside the dimensioned set
C24_Witness ==
    /\ call.op = "normalize_property"
    /\ call.args.property_name = "Nenngröße"
    /\ call.args.property_value = "4,8 mm"
    /\ call.args.language = "de"
    /\ call.result = [name |-> "nominal_size", value |-> "4,8 mm", unit |-> None]

-----------------------------------------------------------------------------
(* C25: new-property detection registers standard names.  Every name it    *)
(* adds to PropertyDefinitions for a language is the standard name under   *)
(* which the import stores that attribute's Property for that language     *)
(* (the result of name normalization for that language); it registers only *)
(* names absent from PropertyDefinitions; each stub has type string with   *)
(* only the slot of its language filled.                                   *)

\* the names under which the row loop stores the attributes of column col,
\* lines 102-112 / 120-130
StoredNames(col, language) ==
    UNION {{normalize_property(get_standard_name(attribute_mapper,
                                                 parsed[csv.rows[r][col]][i][1], language),
                               parsed[csv.rows[r][col]][i][2], language).name :
               i \in DOMAIN parsed[csv.rows[r][col]]} :
           r \in {q \in DOMAIN csv.rows : col \in Columns(csv.columns) /\ ~isna(csv.rows[q][col])}}

RegisteredStubs ==
    \A i \in DOMAIN PropertyDefinitions :
        /\ PropertyDefinitions[i].data_type = "string"
        /\ PropertyDefinitions[i].expected_unit = None
        /\ (PropertyDefinitions[i].name_de = None) # (PropertyDefinitions[i].name_en = None)
        /\ \A j \in DOMAIN PropertyDefinitions :
              (/\ PropertyDefinitions[j].name_de = PropertyDefinitions[i].name_de
               /\ PropertyDefinitions[j].name_en = PropertyDefinitions[i].name_en) => j = i

RegisteredNamesAreStoredNames ==
    \A i \in DOMAIN PropertyDefinitions :
        /\ PropertyDefinitions[i].name_de # None =>
              PropertyDefinitions[i].name_de \in StoredNames("p_desc.de", "de")
        /\ PropertyDefinitions[i].name_en # None =>
              PropertyDefinitions[i].name_en \in StoredNames("p_desc.en", "en")

C25_DetectionRegistersStandardNames ==
    pc \in {"rows", "done"} => (RegisteredStubs /\ RegisteredNamesAreStoredNames)

-----------------------------------------------------------------------------
(* C26: the natural-key upsert is check-then-write and not atomic.  When   *)
(* two jobs run store_property concurrently for the same (article_id,      *)
(* property_name, language) that has no row yet, there is an interleaving  *)
(* in which both pass the existence check and both insert, leaving two     *)
(* rows for the triple.                                                    *)

\* the rows of the key thread t writes
RowsOfKey(t) ==
    {i \in DOMAIN Properties :
        /\ Properties[i].article_id = threads[t].args.article_id
        /\ Properties[i].property_name = threads[t].args.property_name
        /\ Properties[i].language = threads[t].args.language}

\* both calls have returned, for one key
BothReturned ==
    /\ \A t \in Jobs : threads[t].pc = "done"
    /\ threads[1].args.article_id = threads[2].args.article_id

\* the check of both calls found no row
BothPassedCheck == \A t \in Jobs : threads[t].property_id = <<>>

\* two calls that both found no row have both inserted; a call that found
\* the row updated it
C26_CheckThenWriteRace ==
    BothReturned =>
        Cardinality(RowsOfKey(1)) = IF BothPassedCheck THEN 2 ELSE 1

\* two rows for (A1, color, de), one of each job
C26_Witness ==
    /\ BothReturned
    /\ BothPassedCheck
    /\ Cardinality(RowsOfKey(1)) = 2
    /\ \E i, j \in RowsOfKey(1) :
          /\ i < j
          /\ {Properties[i].property_value, Properties[j].property_value} =
                 {threads[1].args.property_value, threads[2].args.property_value}

-----------------------------------------------------------------------------
(* C27: each source row is an atomic unit of failure.  When processing of  *)
(* a row fails at any point (product write, German description or English  *)
(* description) the row is skipped, so after the job the persisted state   *)
(* holds either all of that row's product and property writes or none of   *)
(* them.                                                                   *)

RowErrorTexts ==
    { "Error processing row", "Error processing German description for",
      "Error processing English description for" }

\* the pass of the row loop taken in this step reported a failure
RowFailed ==
    /\ pc = "rows"
    /\ index' = index + 1
    /\ \E i \in (Len(events) + 1)..Len(events') : events'[i].text \in RowErrorTexts

\* a failed row leaves no write behind
C27_RowIsAtomic ==
    [][RowFailed => (Products' = Products /\ Properties' = Properties)]_vars


-----------------------------------------------------------------------------
(* C28: in the row loop of an import of N rows every row, also one that is
   skipped or fails, emits exactly one progress_updated(i, N), with i going
   1, 2, ..., N in increasing order and never above N, and a row's progress
   event comes before every write made for that row *)

\* the last event of the detection that ran before the row loop, 0 without one
DetectionEnd ==
    LET closing == StatusIndices("Total new properties detected.") \cup
                   StatusIndices("Warning: Error detecting new properties")
    IN  IF closing = {} THEN 0 ELSE CHOOSE i \in closing : \A j \in closing : j <= i

IsProgress(e) == e.sig = "progress_updated"

\* the progress events of the row loop, in the order of their emission
RowProgress == SelectSeq(SubSeq(events, DetectionEnd + 1, Len(events)), IsProgress)

OneProgressPerRow ==
    /\ Len(RowProgress) = index
    /\ index <= Len(csv.rows)
    /\ \A i \in DOMAIN RowProgress : RowProgress[i] = progress_updated(i, Len(csv.rows))

\* a step that writes a row's product or properties starts with the row's progress event
ProgressPrecedesWrites ==
    (Products' # Products \/ Properties' # Properties) =>
        /\ index' = index + 1
        /\ Len(events') > Len(events)
        /\ events'[Len(events) + 1] = progress_updated(index', Len(csv.rows))

C28_ProgressPerRow == [](OneProgressPerRow) /\ [][ProgressPrecedesWrites]_vars

C28_Witness ==
    /\ pc = "done"
    /\ detect
    /\ DetectionEnd > 0
    /\ Len(csv.rows) = 2
    /\ Len(RowProgress) = 2
    /\ StatusIndices("Skipping row: Missing article ID") # {}
    /\ ErrorIndices # {}
    /\ Products # <<>>


-----------------------------------------------------------------------------
(* C29: for every total row count, 0 included, new-property detection
   builds its sample without raising and goes through at most
   sample_size = min(100, total_rows) rows *)

C29_BoundedSample ==
    call.op = "sample_indices" =>
        /\ ~call.raised
        /\ Len(call.result) <= Min(SampleLimit, call.args.total_rows)


-----------------------------------------------------------------------------
(* C30: every statement of a DatabaseManager operation runs on the
   connection the operation opened, still open: between its connect and its
   close no other operation on the same object replaces or closes self.conn
   or self.cursor, and an operation that has ended, also by an exception,
   has closed the connection it opened *)

InOperation(job) == job.pc \in {"select", "write", "commit", "close"}

Ended(job) == job.pc \in {"done", "raised"}

C30_OwnOpenConnection ==
    \A t \in Jobs :
        /\ InOperation(threads[t]) =>
              /\ OwnConnection(threads[t])
              /\ OwnCursor(threads[t])
        /\ Ended(threads[t]) =>
              threads[t].handle \notin managers[threads[t].manager].open

====
